---------------------------- MODULE Spec2Model ----------------------------
(***************************************************************************)
(* DocuFresh-AI: the marker resolution engine (DocuFreshAI.process and     *)
(* DocuFreshAI.processMarker, src/src/index.js) with the marker handler    *)
(* catalog (markers.js, src/unnamed/part_000) it dispatches to, and its    *)
(* two collaborators: the lookup client (WikipediaClient,                  *)
(* src/src/wikipedia.js) and the generative backend (AIEngine,             *)
(* src/src/ai-engine.js and src/unnamed/part_002).                         *)
(*                                                                         *)
(* Text is a sequence of one-character strings, so that the regular        *)
(* expressions, String.prototype.replace, split, slice and trim of the     *)
(* source are computed character by character.                             *)
(***************************************************************************)
EXTENDS Integers, Sequences, FiniteSets, TLC

VARIABLES
    text,           \* process(text, customData): the document passed in
    customData,     \* process(text, customData): sequence of <<key, value>> entries
    pc,             \* position of the process() call
    ready,          \* DocuFreshAI.ready
    initialized,    \* AIEngine.initialized
    result,         \* process(): let result
    iteration,      \* process(): let iteration
    matches,        \* process(): const matches (this iteration)
    simpleMatches,  \* process(): const simpleMatches (this iteration)
    mi,             \* index of the next element of the two for-of loops
    origin,         \* history: for each character of result, its index in base (0: produced by a replacement)
    base,           \* history: result when the resolution loop was entered
    firstIter,      \* history: per index of base, the iteration in which a match starting there was first dispatched (0: never)
    lastCall,       \* history: the last processMarker call and what it returned
    handlerCalls,   \* history: number of marker handler invocations
    substRuns,      \* history: number of runs of the custom substitution pass
    scanEmpty,      \* history: the last scan found neither shape
    splitName,      \* parameter splitting on its own: marker name
    splitRaw,       \* parameter splitting on its own: raw parameter string
    splitArgs,      \* parameter splitting on its own: the argument list passed to the handler
    cache,          \* WikipediaClient.cache: normalized topic -> {data, timestamp}, NoItem when absent
    now,            \* Date.now()
    wcall,          \* the getSummary calls of the lookup client: per caller, its position and what it returned
    fetches,        \* history: number of fetches the lookup client issued
    stored,         \* history: per normalized topic, the last record a successful fetch stored since the last clearCache()
    optModel,       \* new DocuFreshAI({model}): options.model
    model,          \* AIEngine.model
    generator,      \* AIEngine.generator: the model id the pipeline was loaded for, NoGenerator for null
    initializing,   \* AIEngine.initializing
    ecall,          \* the init() and setModel() calls on the engine: per caller, its position
    loadedOk,       \* history: a model load succeeded and setModel was not called since
    lastSetter,     \* history: the caller of the last setModel call (0: none)
    dfInitDone,     \* history: a DocuFreshAI.init() call has run to its end
    fnIn,           \* a pure function applied on its own: its argument
    fnOut,          \* a pure function applied on its own: its result
    optSearchFallback, \* new DocuFreshAI({searchFallback}): options.searchFallback
    hcall           \* one marker handler call: its arguments, its position, the lookup and the engine call it made

vars == <<text, customData, pc, ready, initialized, result, iteration, matches,
          simpleMatches, mi, origin, base, firstIter, lastCall, handlerCalls,
          substRuns, scanEmpty, splitName, splitRaw, splitArgs,
          cache, now, wcall, fetches, stored,
          optModel, model, generator, initializing, ecall, loadedOk, lastSetter, dfInitDone,
          fnIn, fnOut, optSearchFallback, hcall>>

\* the state of the lookup client
wikiVars == <<cache, now, wcall, fetches, stored>>

\* the state of the generative backend (with ready and initialized)
engineVars == <<optModel, model, generator, initializing, ecall, loadedOk, lastSetter,
                dfInitDone>>

\* the argument and the result of a function applied on its own
fnVars == <<fnIn, fnOut>>

\* the state of one marker handler call
markerVars == <<optSearchFallback, hcall>>

---------------------------------------------------------------------------
(* Characters and literals *)

Lower == {"a","b","c","d","e","f","g","h","i","j","k","l","m",
          "n","o","p","q","r","s","t","u","v","w","x","y","z"}
Upper == {"A","B","C","D","E","F","G","H","I","J","K","L","M",
          "N","O","P","Q","R","S","T","U","V","W","X","Y","Z"}
Digit == {"0","1","2","3","4","5","6","7","8","9"}

\* \w of the two marker patterns
WordChars == Lower \cup Upper \cup Digit \cup {"_"}

\* innerPattern written with [^}] for the parameters
NotBrace_CloseOnly(c) == c # "}"

\* [^{}] of innerPattern
NotBrace(c) == c \notin {"{", "}"}

\* \s, and what trim() strips, as far as the alphabet of the model goes
\* (space, tab, line feed)
IsSpace(c) == c \in {" ", "\t", "\n"}

OpenBraces  == <<"{", "{">>
CloseBraces == <<"}", "}">>
AiPrefix    == <<"a", "i", "_">>

ai_fact      == <<"a","i","_","f","a","c","t">>
ai_describe  == <<"a","i","_","d","e","s","c","r","i","b","e">>
ai_rewrite   == <<"a","i","_","r","e","w","r","i","t","e">>
ai_complete  == <<"a","i","_","c","o","m","p","l","e","t","e">>
ai_paragraph == <<"a","i","_","p","a","r","a","g","r","a","p","h">>
ai_summary   == <<"a","i","_","s","u","m","m","a","r","y">>
ai_answer    == <<"a","i","_","a","n","s","w","e","r">>
ai_link      == <<"a","i","_","l","i","n","k">>
ai_updated   == <<"a","i","_","u","p","d","a","t","e","d">>
\* a name that createAIMarkers does not define
ai_bogus     == <<"a","i","_","b","o","g","u","s">>

\* the keys of the object createAIMarkers returns
MarkerNames == {ai_fact, ai_describe, ai_rewrite, ai_complete, ai_paragraph,
                ai_summary, ai_answer, ai_link, ai_updated}

\* the markers processMarker splits on the first colon only
FirstColonMarkers == {ai_rewrite, ai_answer, ai_complete}

\* String(undefined), what replace() inserts for a handler that returned undefined
UndefinedText == <<"u","n","d","e","f","i","n","e","d">>

\* `https://en.wikipedia.org/wiki/` of ai_link
WikiPrefix == <<"h","t","t","p","s",":","/","/","e","n",".","w","i","k","i","p","e","d","i","a",
                ".","o","r","g","/","w","i","k","i","/">>

---------------------------------------------------------------------------
(* String primitives *)

\* s.startsWith(lit, i - 1), 1-based
HasAt(s, i, lit) ==
    /\ i >= 1
    /\ i + Len(lit) - 1 <= Len(s)
    /\ SubSeq(s, i, i + Len(lit) - 1) = lit

\* s.indexOf(lit), 1-based; 0 when absent
IndexOf(s, lit) ==
    LET at == { i \in 1..Len(s) : HasAt(s, i, lit) }
    IN  IF at = {} THEN 0 ELSE CHOOSE i \in at : \A j \in at : i <= j

\* String.prototype.trim
Trim(s) ==
    LET kept == { i \in 1..Len(s) : ~IsSpace(s[i]) }
    IN  IF kept = {} THEN <<>>
        ELSE SubSeq(s, CHOOSE i \in kept : \A j \in kept : i <= j,
                       CHOOSE i \in kept : \A j \in kept : i >= j)

Zeros(n) == [i \in 1..n |-> 0]

\* the least index of stops, or otherwise when there is none: where a greedy
\* run of a character class ends
FirstOf(stops, otherwise) ==
    IF stops = {} THEN otherwise ELSE CHOOSE j \in stops : \A k \in stops : j <= k

IsWord(c) == c \in WordChars

\* GetSubstitution of String.prototype.replace for a pattern without capture
\* groups: $$ is a dollar sign and $& the matched text; a $ followed by a
\* digit or anything else stays as written.  (The patterns for the text
\* before and after the match need the backtick and the apostrophe, which
\* the alphabet of the model does not have.)  A text without a $ is inserted
\* as it is.
RECURSIVE Expand(_, _)
Expand(repl, matched) ==
    IF \A k \in DOMAIN repl : repl[k] # "$" THEN repl
    ELSE IF repl[1] = "$" /\ Len(repl) >= 2 /\ repl[2] \in {"$", "&"}
         THEN (IF repl[2] = "$" THEN <<"$">> ELSE matched)
              \o Expand(SubSeq(repl, 3, Len(repl)), matched)
         ELSE <<repl[1]>> \o Expand(Tail(repl), matched)

\* s.replace(pat, repl) with a string pattern: the first occurrence only
ReplaceFirst(s, pat, repl) ==
    LET i == IndexOf(s, pat)
    IN  IF i = 0 THEN s
        ELSE SubSeq(s, 1, i - 1) \o Expand(repl, pat) \o SubSeq(s, i + Len(pat), Len(s))

\* the origins of the characters of ReplaceFirst(s, pat, repl), o being those of s
ReplaceFirstOrigin(s, o, pat, repl) ==
    LET i == IndexOf(s, pat)
    IN  IF i = 0 THEN o
        ELSE SubSeq(o, 1, i - 1) \o Zeros(Len(Expand(repl, pat)))
                 \o SubSeq(o, i + Len(pat), Len(o))

\* s.replace(new RegExp(`\\{\\{${key}\\}\\}`, 'g'), repl) for a key of word
\* characters: every occurrence, left to right, non-overlapping, k scanning
\* the string the call was made on
RECURSIVE ReplaceAllFrom(_, _, _, _)
ReplaceAllFrom(whole, k, pat, repl) ==
    IF k > Len(whole) THEN <<>>
    ELSE IF HasAt(whole, k, pat)
         THEN Expand(repl, pat) \o ReplaceAllFrom(whole, k + Len(pat), pat, repl)
         ELSE <<whole[k]>> \o ReplaceAllFrom(whole, k + 1, pat, repl)

ReplaceAll(s, pat, repl) == ReplaceAllFrom(s, 1, pat, repl)

\* paramsString.split(':')
RECURSIVE Split(_)
Split(s) ==
    LET i == IndexOf(s, <<":">>)
    IN  IF i = 0 THEN <<s>>
        ELSE <<SubSeq(s, 1, i - 1)>> \o Split(SubSeq(s, i + 1, Len(s)))

---------------------------------------------------------------------------
(* WikipediaClient.normalizeTopic *)

\* .replace(/\s+/g, '_')
RECURSIVE SpacesToUnderscore(_)
SpacesToUnderscore(s) ==
    IF s = <<>> THEN <<>>
    ELSE IF IsSpace(s[1])
         THEN <<"_">> \o SpacesToUnderscore(SubSeq(s, FirstOf({ j \in 1..Len(s) : ~IsSpace(s[j]) }, Len(s) + 1),
                                              Len(s)))
         ELSE <<s[1]>> \o SpacesToUnderscore(Tail(s))

IsUnderscore(c) == c = "_"

\* the last replace of normalizeTopic written as /^_+/
StripUnderscores_LeadingOnly(s) ==
    LET kept == { i \in 1..Len(s) : ~IsUnderscore(s[i]) }
    IN  IF kept = {} THEN <<>>
        ELSE SubSeq(s, CHOOSE i \in kept : \A j \in kept : i <= j, Len(s))

\* .replace(/^_+|_+$/g, '')
StripUnderscores(s) ==
    LET kept == { i \in 1..Len(s) : ~IsUnderscore(s[i]) }
    IN  IF kept = {} THEN <<>>
        ELSE SubSeq(s, CHOOSE i \in kept : \A j \in kept : i <= j,
                       CHOOSE i \in kept : \A j \in kept : i >= j)

normalizeTopic(topic) == StripUnderscores(SpacesToUnderscore(Trim(topic)))

---------------------------------------------------------------------------
(* The two marker patterns of process() *)

\* the full marker text `{{name:params}}`
Marker(name, params) == OpenBraces \o name \o <<":">> \o params \o CloseBraces

\* the full marker text `{{name}}`
Bare(name) == OpenBraces \o name \o CloseBraces

\* index after the name of a marker opening at i
NameEnd(s, i) == FirstOf({ j \in (i + 5)..Len(s) : ~IsWord(s[j]) }, Len(s) + 1)

\* index after the [^{}]* run that starts at i
ParamsEnd(s, i) == FirstOf({ j \in i..Len(s) : ~NotBrace(s[j]) }, Len(s) + 1)

\* innerPattern = /\{\{(ai_\w+):([^{}]*)\}\}/ matches at i: the index of the
\* last character of the match, 0 when it does not match there.  \w+ and
\* [^{}]* are greedy and what must follow either is outside its class, so
\* the match at an index is unique.
InnerEnd(s, i) ==
    IF HasAt(s, i, OpenBraces \o AiPrefix) /\ NameEnd(s, i) > i + 5
          /\ HasAt(s, NameEnd(s, i), <<":">>)
          /\ HasAt(s, ParamsEnd(s, NameEnd(s, i) + 1), CloseBraces)
    THEN ParamsEnd(s, NameEnd(s, i) + 1) + 1
    ELSE 0

\* simplePattern written with \w* for the rest of the name
SimpleEnd_EmptyName(s, i) ==
    IF HasAt(s, i, OpenBraces \o AiPrefix) /\ HasAt(s, NameEnd(s, i), CloseBraces)
    THEN NameEnd(s, i) + 1
    ELSE 0

\* simplePattern = /\{\{(ai_\w+)\}\}/ matches at i: index of the last character, or 0
SimpleEnd(s, i) ==
    IF HasAt(s, i, OpenBraces \o AiPrefix) /\ NameEnd(s, i) > i + 5
          /\ HasAt(s, NameEnd(s, i), CloseBraces)
    THEN NameEnd(s, i) + 1
    ELSE 0

\* one element of [...result.matchAll(innerPattern)]: match[0], match[1],
\* match[2] and match.index (1-based)
InnerMatch(s, i) ==
    [full   |-> SubSeq(s, i, InnerEnd(s, i)),
     name   |-> SubSeq(s, i + 2, NameEnd(s, i) - 1),
     params |-> SubSeq(s, NameEnd(s, i) + 1, InnerEnd(s, i) - 2),
     index  |-> i]

\* one element of [...result.matchAll(simplePattern)]; processMarker gets ''
SimpleMatch(s, i) ==
    [full   |-> SubSeq(s, i, SimpleEnd(s, i)),
     name   |-> SubSeq(s, i + 2, NameEnd(s, i) - 1),
     params |-> <<>>,
     index  |-> i]

\* [...s.matchAll(innerPattern)] from index i on: leftmost first, the scan
\* resuming after each match
RECURSIVE InnerMatchesFrom(_, _)
InnerMatchesFrom(s, i) ==
    LET j == FirstOf({ k \in i..Len(s) : InnerEnd(s, k) # 0 }, 0)
    IN  IF j = 0 THEN <<>>
        ELSE <<InnerMatch(s, j)>> \o InnerMatchesFrom(s, InnerEnd(s, j) + 1)

RECURSIVE SimpleMatchesFrom(_, _)
SimpleMatchesFrom(s, i) ==
    LET j == FirstOf({ k \in i..Len(s) : SimpleEnd(s, k) # 0 }, 0)
    IN  IF j = 0 THEN <<>>
        ELSE <<SimpleMatch(s, j)>> \o SimpleMatchesFrom(s, SimpleEnd(s, j) + 1)

\* the matches taken from the right end of the buffer to the left
InnerMatches_RightToLeft(s) ==
    [k \in DOMAIN InnerMatchesFrom(s, 1) |->
        InnerMatchesFrom(s, 1)[Len(InnerMatchesFrom(s, 1)) + 1 - k]]

\* [...result.matchAll(innerPattern)]
InnerMatches(s) == InnerMatchesFrom(s, 1)
SimpleMatches(s) == SimpleMatchesFrom(s, 1)

---------------------------------------------------------------------------
(* processMarker: parameter splitting *)

\* processMarker splitting on every colon whatever the marker
SplitParams_EveryColon(markerName, paramsString) ==
    [k \in DOMAIN Split(paramsString) |-> Trim(Split(paramsString)[k])]

\* params of processMarker for a non-empty paramsString
SplitParams(markerName, paramsString) ==
    LET colonIndex == IndexOf(paramsString, <<":">>)
    IN  IF colonIndex # 0 /\ markerName \in FirstColonMarkers
        THEN <<Trim(SubSeq(paramsString, 1, colonIndex - 1)),
               Trim(SubSeq(paramsString, colonIndex + 1, Len(paramsString)))>>
        ELSE [k \in DOMAIN Split(paramsString) |-> Trim(Split(paramsString)[k])]

\* the arguments markerFn is called with: if (paramsString) ... else markerFn()
HandlerArgs(markerName, paramsString) ==
    IF paramsString # <<>> THEN SplitParams(markerName, paramsString) ELSE <<>>

---------------------------------------------------------------------------
(* The handler catalog (createAIMarkers).  A handler call either returns a *)
(* text or throws; what the lookup service and the model produce is not    *)
(* decided by the program and is drawn from small sets.                    *)

\* the lookup a handler call makes: the client method it calls and the
\* topic, the url of the summary record, how the direct lookup ended,
\* whether a search was made and the titles it found, the title the lookup
\* was retried with, and the fact text it came to
NoLookup == [fn |-> "none", topic |-> <<>>, url |-> <<>>, direct |-> "none",
             searched |-> FALSE, candidates |-> <<>>, retried |-> <<>>,
             text |-> <<>>]

Returned(t) == [kind |-> "ok", value |-> t, lookup |-> NoLookup]
Thrown      == [kind |-> "throw", value |-> <<>>, lookup |-> NoLookup]

\* wikipedia.getSummary(topic), the record having this url
SummaryLookup(topic, url) ==
    [NoLookup EXCEPT !.fn = "getSummary", !.topic = topic, !.url = url]

\* summary.url of the record getSummary returns: the canonical url of the
\* page, or null (here the empty text, falsy alike) for a degraded record
SummaryUrls == { <<>>, WikiPrefix \o <<"J", "S">> }

\* texts the generative handlers may return (model output, article text):
\* for the topic n a text with a $ pattern or one that looks like a
\* custom-data placeholder, otherwise a plain text or a text that is itself
\* a marker
GeneratedTexts(args) ==
    IF args = << <<"n">> >>
    THEN { <<"$", "&">>, <<"{", "{", "n", "}", "}">> }
    ELSE { <<"R">>, Marker(ai_fact, <<"T">>) }

\* ai_complete: async (content) => content; undefined without arguments,
\* which replace() inserts as the text `undefined`
CompleteOutcomes(args) ==
    { Returned(IF Len(args) >= 1 THEN args[1] ELSE UndefinedText) }

\* ai_link: summary.url || `https://en.wikipedia.org/wiki/${normalizeTopic(topic)}`;
\* without arguments topic is undefined and normalizeTopic throws a TypeError
LinkOutcomes(args) ==
    IF Len(args) = 0 THEN { Thrown }
    ELSE { [Returned(IF url # <<>> THEN url ELSE WikiPrefix \o normalizeTopic(args[1]))
               EXCEPT !.lookup = SummaryLookup(args[1], url)] :
              url \in SummaryUrls }

\* the handlers that await the lookup and the model: the generated text, or
\* the error of a collaborator call made outside the engine's try blocks
GenerativeOutcomes(args) ==
    { Thrown } \cup { Returned(t) : t \in GeneratedTexts(args) }

\* await markerFn(...params)
HandlerOutcomes(markerName, args) ==
    IF markerName = ai_complete THEN CompleteOutcomes(args)
    ELSE IF markerName = ai_link THEN LinkOutcomes(args)
    ELSE GenerativeOutcomes(args)

\* `{{${markerName}:${paramsString}}}`, returned for an unknown marker and
\* from the catch block
OriginalMarker(markerName, paramsString) == Marker(markerName, paramsString)

\* this.markers[markerName] is defined
IsKnown(markerName) == markerName \in MarkerNames

\* processMarker with a catch block that returns the empty text
ProcessMarkerResult_CatchEmpty(markerName, paramsString, out) ==
    IF ~IsKnown(markerName) THEN OriginalMarker(markerName, paramsString)
    ELSE IF out.kind = "throw" THEN <<>>
    ELSE out.value

\* what processMarker returns, the handler's outcome being out
ProcessMarkerResult(markerName, paramsString, out) ==
    IF ~IsKnown(markerName) THEN OriginalMarker(markerName, paramsString)
    ELSE IF out.kind = "throw" THEN OriginalMarker(markerName, paramsString)
    ELSE out.value

---------------------------------------------------------------------------
(* Inputs *)

\* nesting depth of the nested documents
MaxDepth == 2
\* copies of one marker in the documents with duplicates
MaxCopies == 2
\* length of the raw parameter strings the splitting is applied to on its own
MaxRawLen == 4

\* const maxIterations = 10
maxIterations == 10

RawParams == { <<>>, <<"T">>, <<"n">>, <<"a", ":", "b">>, <<" ", "T", " ">>, <<"$", "&">> }

DocNames == { ai_link, ai_complete, ai_fact, ai_bogus }

Leaves == { Marker(n, p) : n \in DocNames, p \in RawParams } \cup { Bare(n) : n \in DocNames }

ShortLeaves == { Marker(n, <<"T">>) : n \in DocNames } \cup { Bare(n) : n \in DocNames }

OuterNames == { ai_complete, ai_fact, ai_bogus }

\* markers nested d deep: `{{outer:A <marker of depth d - 1> B}}`
RECURSIVE Nested(_)
Nested(d) ==
    IF d <= 1 THEN ShortLeaves
    ELSE { Marker(o, <<"A", " ">> \o x \o <<" ", "B">>) : o \in OuterNames, x \in Nested(d - 1) }

NestedDocs == UNION { Nested(d) : d \in 2..MaxDepth }

\* one outer marker around two inner ones
TwoInnerDocs ==
    { Marker(ai_complete, x \o <<" ">> \o y) :
        x \in { Marker(ai_link, <<"T">>), Bare(ai_fact) },
        y \in { Marker(ai_link, <<"T">>), Bare(ai_fact) } }

\* k copies of m, separated by a space
RECURSIVE Copies(_, _)
Copies(m, k) == IF k <= 1 THEN m ELSE m \o <<" ">> \o Copies(m, k - 1)

DupLeaves == { Marker(ai_link, <<"T">>), Marker(ai_fact, <<"T">>), Marker(ai_bogus, <<"T">>),
               Marker(ai_complete, <<"a", ":", "b">>), Bare(ai_bogus) }

DupDocs == { Copies(m, k) : m \in DupLeaves, k \in 2..MaxCopies }

PairLeaves == { Marker(ai_link, <<"T">>), Marker(ai_fact, <<"T">>), Bare(ai_link), Bare(ai_bogus) }

\* two different markers side by side
PairDocs ==
    { p[1] \o <<" ">> \o p[2] : p \in { q \in PairLeaves \X PairLeaves : q[1] # q[2] } }

\* documents without a marker: text, near misses of the two patterns
PlainDocs ==
    { <<>>, <<"T">>, <<"$", "&">>,
      <<"{", "{", "T", "}", "}">>,
      <<"{", "{", "a", "i", "_", "}", "}">>,
      <<"{", "{", "a", "i", "_", ":", "T", "}", "}">>,
      <<"{", "a", "i", "_", "x", "}">>,
      <<"{", "{", "a", "i", "_", "x", ":", "T", "}">>,
      <<"{", "{", "a", "i", "_", "x", ":", "T", "{", "}", "}">>,
      <<"{", "{", "a", "i", "_", "x", " ", "}", "}">>,
      <<"{", "{", "x", "a", "i", "_", "x", ":", "T", "}", "}">>,
      WikiPrefix \o <<"T">> }

\* ai_complete markers nested d deep around the text T
RECURSIVE CompleteNest(_)
CompleteNest(d) ==
    IF d = 0 THEN <<"T">> ELSE Marker(ai_complete, CompleteNest(d - 1))

\* nestings as deep as the iteration cap and one deeper
DeepDocs == { CompleteNest(maxIterations), CompleteNest(maxIterations + 1) }

\* markers of known names with a single brace in the parameter text, alone and
\* beside a marker that resolves
BraceLeaves ==
    { Marker(ai_fact, <<"T", "{">>), Marker(ai_fact, <<"}", "T">>),
      Marker(ai_complete, <<"a", "{", "b", "}">>) }

BraceDocs == BraceLeaves \cup { m \o <<" ">> \o Marker(ai_link, <<"T">>) : m \in BraceLeaves }

Docs == Leaves \cup NestedDocs \cup TwoInnerDocs \cup DupDocs \cup PairDocs \cup PlainDocs
            \cup DeepDocs \cup BraceDocs

\* `{{key}}`
Placeholder(key) == OpenBraces \o key \o CloseBraces

KeyN == <<"n">>
KeyM == <<"m">>

Entry(k, v) == [key |-> k, value |-> v]

\* String(value) of the custom data: plain, with $ patterns, a marker
CustomValues == { <<"v">>, <<"$", "$", "5">>, <<"$", "&">>, <<"$", "1">>,
                  Marker(ai_link, <<"T">>) }

\* Object.entries(customData) of the non-empty maps
DataSets ==
    { <<Entry(KeyN, v)>> : v \in CustomValues }
    \cup { <<Entry(KeyN, <<"v">>), Entry(KeyM, <<"w">>)>> }

CustomDocs ==
    { Placeholder(KeyN),
      <<"T">>,
      Placeholder(KeyN) \o <<" ">> \o Placeholder(KeyN),
      Placeholder(KeyM) \o Placeholder(KeyN),
      Placeholder(KeyN) \o <<" ">> \o Marker(ai_fact, <<"T">>),
      Marker(ai_fact, KeyN),
      Marker(ai_complete, Placeholder(KeyN)) }

\* the calls process(text) / process(text, {}) and process(text, customData)
Inputs == (Docs \X { <<>> }) \cup (CustomDocs \X DataSets)

SplitAlphabet == { "a", ":", " " }

RawStrings == UNION { [1..k -> SplitAlphabet] : k \in 0..MaxRawLen }

---------------------------------------------------------------------------
(* The lookup client (WikipediaClient): getSummary and its cache *)

\* options.cacheTTL, in clock ticks
cacheTTL == 2
\* the clock runs from 0 to MaxTime
MaxTime == 4
\* fetches issued in one run
MaxFetches == 3

\* length of the topics normalizeTopic is applied to on its own
MaxTopicLen == 6

TopicAlphabet == {"a", "_", " ", "\t"}

\* `  hello world  ` and `already_normalized`
HelloWorldPadded == <<" "," ","h","e","l","l","o"," ","w","o","r","l","d"," "," ">>
AlreadyNormalized == <<"a","l","r","e","a","d","y","_","n","o","r","m","a","l","i","z","e","d">>

TopicStrings ==
    UNION { [1..k -> TopicAlphabet] : k \in 0..MaxTopicLen }
        \cup {HelloWorldPadded, AlreadyNormalized}

\* two concurrent callers of the lookup client
Callers == {1, 2}

\* topics the callers ask for: two of them normalize to the same key
WikiTopics == { <<"T">>, <<" ", "T">>, <<"N">> }

\* `Unable to fetch information about `
UnableText == <<"U","n","a","b","l","e"," ","t","o"," ","f","e","t","c","h"," ",
                "i","n","f","o","r","m","a","t","i","o","n"," ","a","b","o","u","t"," ">>

\* new Map()
EmptyMap == [k \in {} |-> 0]

\* map.set(key, value)
MapSet(map, key, value) ==
    [k \in DOMAIN map \cup {key} |-> IF k = key THEN value ELSE map[k]]

\* map.delete(key)
MapDelete(map, key) == [k \in DOMAIN map \ {key} |-> map[k]]

\* what the awaited fetch and response.json() come to: the request fails,
\* the response is not ok, the body does not parse, or data arrives
FetchFailures == { "network", "status", "body" }

\* the record getSummary builds from data (title, url and extract of it;
\* error is not set): data.content_urls?.desktop?.page || null is the url
FreshRecord(key, url) ==
    [title |-> key, url |-> url, extract |-> <<"E">>, error |-> FALSE]

\* the catch block written with the normalized topic as the title
DegradedRecord_Normalized(topic) ==
    [title |-> normalizeTopic(topic), url |-> <<>>,
     extract |-> UnableText \o topic, error |-> TRUE]

\* the record the catch block of getSummary returns
DegradedRecord(topic) ==
    [title |-> topic, url |-> <<>>, extract |-> UnableText \o topic, error |-> TRUE]

\* the expiry test written with >=
Expired_AtTTL(timestamp, t) == t - timestamp >= cacheTTL

\* getFromCache: Date.now() - item.timestamp > this.cacheTTL
Expired(timestamp, t) == t - timestamp > cacheTTL

\* getFromCache(key) finds a live item
CacheHit(map, key, t) == key \in DOMAIN map /\ ~Expired(map[key].timestamp, t)

\* the cache after getFromCache(key): an expired item is deleted
AfterGetFromCache(map, key, t) ==
    IF key \in DOMAIN map /\ Expired(map[key].timestamp, t) THEN MapDelete(map, key)
    ELSE map

NoRecord == [title |-> <<>>, url |-> <<>>, extract |-> <<>>, error |-> FALSE]

\* a caller that has not called yet
NoSummaryCall ==
    [pc |-> "idle", topic |-> <<>>, key |-> <<>>, served |-> "none", outcome |-> "none",
     ret |-> NoRecord, expect |-> "none", expectData |-> NoRecord,
     afterFailure |-> FALSE]

\* no lookup client in the run
WikiIdle ==
    /\ cache = EmptyMap
    /\ now = 0
    /\ wcall = [c \in Callers |-> NoSummaryCall]
    /\ fetches = 0
    /\ stored = EmptyMap

---------------------------------------------------------------------------
(* The generative backend (AIEngine): model selection and init() *)

\* Object.keys(SUPPORTED_MODELS)
SupportedKeys == {"small", "base", "large"}

\* const SUPPORTED_MODELS
SUPPORTED_MODELS ==
    [k \in SupportedKeys |->
        IF k = "small"
        THEN [id |-> "Xenova/flan-t5-small", name |-> "FLAN-T5 Small", size |-> "250MB",
              quality |-> "good"]
        ELSE IF k = "base"
        THEN [id |-> "Xenova/flan-t5-base", name |-> "FLAN-T5 Base", size |-> "900MB",
              quality |-> "better"]
        ELSE [id |-> "Xenova/flan-t5-large", name |-> "FLAN-T5 Large", size |-> "3GB",
              quality |-> "best"]]

\* the property names an object literal inherits from Object.prototype
ObjectPrototypeKeys ==
    {"constructor", "toString", "toLocaleString", "valueOf", "hasOwnProperty",
     "isPrototypeOf", "propertyIsEnumerable", "__proto__"}

\* undefined, null, and a value inherited from Object.prototype (a function,
\* or the prototype object: truthy, and without an id)
Undefined == [kind |-> "undefined"]
Null == [kind |-> "null"]
Inherited(k) == [kind |-> "inherited", key |-> k]
Info(k) == [kind |-> "info", key |-> k, info |-> SUPPORTED_MODELS[k]]

\* SUPPORTED_MODELS[modelKey]: an own property, else one of Object.prototype
PropertyOf(k) ==
    IF k \in SupportedKeys THEN Info(k)
    ELSE IF k \in ObjectPrototypeKeys THEN Inherited(k)
    ELSE Undefined

Truthy(v) == v.kind \in {"info", "inherited"}

\* AIEngine.getAvailableModels()
getAvailableModels == SupportedKeys

\* AIEngine.getModelInfo(modelKey): SUPPORTED_MODELS[modelKey] || null
getModelInfo(modelKey) ==
    IF Truthy(PropertyOf(modelKey)) THEN PropertyOf(modelKey) ELSE Null

\* the id of a model string, or the record of undefined
ModelId(id) == [kind |-> "id", id |-> id]

\* AIEngine.resolveModel(modelInput)
resolveModel(modelInput) ==
    IF Truthy(PropertyOf(modelInput))
    THEN (IF PropertyOf(modelInput).kind = "info"
          THEN ModelId(PropertyOf(modelInput).info.id) ELSE Undefined)
    ELSE ModelId(modelInput)

\* options.model absent
NoModel == ""

\* this.model of the constructor: resolveModel(options.model || 'small')
ConstructedModel(option) == resolveModel(IF option = NoModel THEN "small" ELSE option)

\* options.model of the instances: absent, the keys, model ids, other words
ModelOptions ==
    {NoModel, "small", "base", "large", "Xenova/flan-t5-base", "facebook/bart-large-cnn",
     "invalid", "constructor", "toString"}

\* the arguments setModel is called with
SetModelArgs == {"base", "large", "facebook/bart-large-cnn"}

\* this.generator = null
NoGenerator == Null

\* init() that starts a load whenever the engine is not initialized
InitPath_NoGuard(isInitialized, isInitializing) ==
    IF isInitialized THEN "return" ELSE "load"

\* AIEngine.init() up to its first await: return at once, wait for the load
\* in flight, or start the load
InitPath(isInitialized, isInitializing) ==
    IF isInitialized THEN "return"
    ELSE IF isInitializing THEN "poll"
    ELSE "load"

NoSnap == [model |-> Undefined, generator |-> NoGenerator, setter |-> 0]

\* a caller that has not called the engine yet
NoEngineCall ==
    [pc |-> "idle", op |-> "none", arg |-> NoModel, path |-> "none",
     entryInitialized |-> FALSE, loadFor |-> Undefined, snap |-> NoSnap]

\* new AIEngine({model: option}), no call made
EngineConstructed(option) ==
    /\ optModel = option
    /\ model = ConstructedModel(option)
    /\ generator = NoGenerator
    /\ initializing = FALSE
    /\ ecall = [c \in Callers |-> NoEngineCall]
    /\ loadedOk = FALSE
    /\ lastSetter = 0
    /\ dfInitDone = FALSE

\* the engine of a run that looks at something else
EngineIdle == EngineConstructed(NoModel)

\* no function applied on its own
FnIdle == fnIn = <<>> /\ fnOut = <<>>

---------------------------------------------------------------------------
(* The handlers that use a fact text: ai_fact, ai_rewrite and ai_answer.   *)
(* getFactWithFallback is not part of the lookup client's source; it is    *)
(* modelled as the interface description gives it: getFact, and when the   *)
(* topic does not resolve directly, a search and a second lookup with the  *)
(* first title found.                                                      *)

\* values of options.searchFallback
SearchFallbackOptions == { "undefined", "true", "false" }

\* this.searchFallback = options.searchFallback ?? true
SearchFallbackOf(option) == IF option = "undefined" THEN TRUE ELSE option = "true"

\* createAIMarkers(wikipedia, ai, {searchFallback: this.searchFallback}):
\* const useSearchFallback = options.searchFallback ?? true
useSearchFallback == SearchFallbackOf(optSearchFallback)

\* getFactsFromWikipedia going to getFact whatever the option
FactLookupFn_AlwaysGetFact(fallback) == "getFact"

\* getFactsFromWikipedia(topic): the client method it calls
FactLookupFn(fallback) == IF fallback THEN "getFactWithFallback" ELSE "getFact"

\* the handlers that start with await getFactsFromWikipedia(topic)
FactMarkers == { ai_fact, ai_rewrite }

\* the mode chosen by the number of arguments
HasQuestion_ByCount(args) == Len(args) >= 2

\* ai_answer: if (question), question being undefined when absent
HasQuestion(args) == Len(args) >= 2 /\ args[2] # <<>>

\* the handler call starts with a lookup of its first argument
NeedsFacts(markerName, args) ==
    markerName \in FactMarkers \/ (markerName = ai_answer /\ HasQuestion(args))

\* the second argument of the handler, undefined written as the empty text
SecondArg(args) == IF Len(args) >= 2 THEN args[2] ELSE <<>>

\* the engine method the handler awaits, with its input and the fact text
\* it is given
NoEngineRequest == [fn |-> "none", input |-> <<>>, context |-> <<>>]

EngineRequest(markerName, args, facts) ==
    IF markerName = ai_fact
    THEN [fn |-> "extractKeyFact", input |-> <<>>, context |-> facts]
    ELSE IF markerName = ai_describe
    THEN [fn |-> "generateDescription", input |-> args[1], context |-> facts]
    ELSE IF markerName = ai_paragraph
    THEN [fn |-> "generateParagraph", input |-> <<>>, context |-> facts]
    ELSE IF markerName = ai_summary
    THEN [fn |-> "summarize", input |-> <<>>, context |-> facts]
    ELSE IF markerName = ai_rewrite
    THEN [fn |-> "rewriteWithFacts", input |-> SecondArg(args), context |-> facts]
    ELSE IF HasQuestion(args)
    THEN [fn |-> "answerQuestion", input |-> args[2], context |-> facts]
    ELSE [fn |-> "answerSimple", input |-> args[1], context |-> <<>>]

\* `Information about `, ` not available`
InformationAbout == <<"I","n","f","o","r","m","a","t","i","o","n"," ","a","b","o","u","t"," ">>
NotAvailable == <<" ","n","o","t"," ","a","v","a","i","l","a","b","l","e">>

\* facts.slice(0, 200) in generateParagraph
ParagraphLimit == 200

\* summarize(text, maxLength = 100): text.slice(0, maxLength)
SummaryLimit == 100

\* an extract longer than both limits
LongExtract == [i \in 1..(ParagraphLimit + 1) |-> IF i = 1 THEN "y" ELSE "x"]

\* extracts of the summary records the service may give
Extracts == { <<>>, <<"E">>, <<"E", ".", "F">>, LongExtract }

\* getFact: summary.extract || `Information about ${topic} not available`
FactOf(extract, topic) ==
    IF extract # <<>> THEN extract ELSE InformationAbout \o topic \o NotAvailable

\* getFact when getSummary gives its degraded record
DegradedFact(topic) == FactOf(DegradedRecord(topic).extract, topic)

\* titles a search may find: search() gives [] when it fails
SearchResults == { <<>>, << <<"J", "S">> >>, << <<"J", "S">>, <<"T">> >> }

\* the text getFactWithFallback gives when neither the topic nor a title
\* found for it resolves
UnableToFind == <<"U","n","a","b","l","e"," ","t","o"," ","f","i","n","d"," ","i","n","f","o","r","m","a","t","i","o","n"," ","a","b","o","u","t"," ">>

NotFoundFact(topic) == UnableToFind \o topic

\* `Unable to answer`
UnableToAnswer == <<"U","n","a","b","l","e"," ","t","o"," ","a","n","s","w","e","r">>

\* the handlers that start with await wikipedia.getSummary(topic)
SummaryMarkers == { ai_describe, ai_paragraph, ai_summary, ai_updated }

\* result[0]?.generated_text?.trim() of a generator call that returns: a
\* text, or nothing (no text in the result, or whitespace only)
GeneratorOutputs == { <<"R">>, <<>> }

\* text.slice(0, n)
Slice(t, n) == SubSeq(t, 1, IF Len(t) < n THEN Len(t) ELSE n)

\* text.split('.')[0]
BeforeFirstDot(t) == SubSeq(t, 1, FirstOf({ j \in 1..Len(t) : t[j] = "." }, Len(t) + 1) - 1)

\* what an engine method returns when the generator gives no text and in
\* its catch block; a missing sentence is undefined, which replace()
\* inserts as the text `undefined`
MethodFallback(request, args) ==
    IF request.fn \in {"extractKeyFact", "generateDescription"}
    THEN BeforeFirstDot(request.context)
    ELSE IF request.fn = "rewriteWithFacts"
    THEN IF Len(args) >= 2 THEN args[2] ELSE UndefinedText
    ELSE IF request.fn = "generateParagraph" THEN Slice(request.context, ParagraphLimit)
    ELSE IF request.fn = "summarize" THEN Slice(request.context, SummaryLimit)
    ELSE UnableToAnswer

\* timestamps: data.timestamp of the page, none given, and
\* new Date().toISOString() at the time of the call
PageTimestamp == <<"2","0","2","4","-","0","1","-","1","5","T">>
NowTimestamp == <<"2","0","2","6","-","1","1","-","0","3","T">>
DataTimestamps == { PageTimestamp, <<>> }

\* timestamp: data.timestamp || new Date().toISOString()
FreshTimestamp(dataTimestamp) ==
    IF dataTimestamp # <<>> THEN dataTimestamp ELSE NowTimestamp

\* the catch block of getSummary: timestamp: new Date().toISOString()
DegradedTimestamp == NowTimestamp

\* new Date(timestamp).toLocaleDateString(): month/day/year of an ISO time
LocaleDate(timestamp) ==
    SubSeq(timestamp, 6, 7) \o <<"/">> \o SubSeq(timestamp, 9, 10) \o <<"/">>
        \o SubSeq(timestamp, 1, 4)

\* `Unknown`
Unknown == <<"U","n","k","n","o","w","n">>

\* ai_updated: if (summary.timestamp) return the date; return 'Unknown'
UpdatedText(timestamp, error) ==
    IF timestamp # <<>> THEN LocaleDate(timestamp) ELSE Unknown

NoHandlerCall ==
    [name |-> <<>>, raw |-> <<>>, args |-> <<>>, stage |-> "idle",
     lookup |-> NoLookup, title |-> <<>>, timestamp |-> <<>>,
     request |-> NoEngineRequest, generation |-> "none",
     kind |-> "none", value |-> <<>>, out |-> <<>>]

MarkerIdle == optSearchFallback = "undefined" /\ hcall = NoHandlerCall

---------------------------------------------------------------------------
(* AIEngine.extractKeyInfo: the four patterns, tried in order, and the     *)
(* first-sentence fallback.  The patterns are matched as the regular       *)
(* expression engine matches them: leftmost start, greedy quantifiers; at  *)
(* no point can a quantifier that gives characters back make the rest      *)
(* match, since what follows it never starts with a character of its       *)
(* class.                                                                  *)

LowerLetters == <<"a","b","c","d","e","f","g","h","i","j","k","l","m",
                  "n","o","p","q","r","s","t","u","v","w","x","y","z">>
UpperLetters == <<"A","B","C","D","E","F","G","H","I","J","K","L","M",
                  "N","O","P","Q","R","S","T","U","V","W","X","Y","Z">>

\* the i flag: letters compare by their lower-case form
ToLower(c) ==
    IF c \in Upper THEN LowerLetters[CHOOSE k \in 1..26 : UpperLetters[k] = c] ELSE c

\* lit (lower case) is at index i of s, whatever the case
HasWordAt(s, i, lit) ==
    /\ i >= 1
    /\ i + Len(lit) - 1 <= Len(s)
    /\ \A k \in 1..Len(lit) : ToLower(s[i + k - 1]) = lit[k]

\* (w1|w2|...) at index i: the length of the first alternative found there, 0 for none
AlternativeAt(s, i, words) ==
    LET found == { k \in 1..Len(words) : HasWordAt(s, i, words[k]) }
    IN  IF found = {} THEN 0 ELSE Len(words[CHOOSE k \in found : \A j \in found : k <= j])

IsDigit(c) == c \in Digit

\* index after the \d+ that starts at i
DigitsEnd(s, i) == FirstOf({ j \in i..Len(s) : ~IsDigit(s[j]) }, Len(s) + 1)

\* index after the \s* that starts at i
SpacesEnd(s, i) == FirstOf({ j \in i..Len(s) : ~IsSpace(s[j]) }, Len(s) + 1)

\* \d[\d,]*(\.\d+)? at index i: the index after it, 0 when s[i] is not a digit
NumberEnd(s, i) ==
    IF i > Len(s) \/ ~IsDigit(s[i]) THEN 0
    ELSE LET a == FirstOf({ j \in (i + 1)..Len(s) : ~(IsDigit(s[j]) \/ s[j] = ",") },
                          Len(s) + 1)
         IN  IF a + 1 <= Len(s) /\ s[a] = "." /\ IsDigit(s[a + 1])
             THEN DigitsEnd(s, a + 1)
             ELSE a

ScaleWords == <<<<"m","i","l","l","i","o","n">>, <<"b","i","l","l","i","o","n">>, <<"t","r","i","l","l","i","o","n">>>>
UnitWords == <<<<"u","s","e","r","s">>, <<"p","e","o","p","l","e">>, <<"d","o","l","l","a","r","s">>, <<"d","o","w","n","l","o","a","d","s">>>>
PercentWords == <<<<"p","e","r","c","e","n","t">>, <<"%">>>>
MonthWords == <<<<"j","a","n","u","a","r","y">>,
                <<"f","e","b","r","u","a","r","y">>,
                <<"m","a","r","c","h">>,
                <<"a","p","r","i","l">>,
                <<"m","a","y">>,
                <<"j","u","n","e">>,
                <<"j","u","l","y">>,
                <<"a","u","g","u","s","t">>,
                <<"s","e","p","t","e","m","b","e","r">>,
                <<"o","c","t","o","b","e","r">>,
                <<"n","o","v","e","m","b","e","r">>,
                <<"d","e","c","e","m","b","e","r">>>>

\* /\d[\d,]*(\.\d+)?\s*(million|billion|trillion)\s*(users|people|dollars|downloads)?/gi
\* at index i: the index after the match, 0 for no match
ScaleEnd(s, i) ==
    LET n == NumberEnd(s, i)
        w == SpacesEnd(s, n)
        scale == AlternativeAt(s, w, ScaleWords)
        u == SpacesEnd(s, w + scale)
    IN  IF n = 0 \/ scale = 0 THEN 0
        ELSE u + AlternativeAt(s, u, UnitWords)

\* /\d[\d,]*(\.\d+)?\s*(percent|%)/gi at index i
PercentEnd(s, i) ==
    LET n == NumberEnd(s, i)
        w == SpacesEnd(s, n)
        word == AlternativeAt(s, w, PercentWords)
    IN  IF n = 0 \/ word = 0 THEN 0 ELSE w + word

\* /(january|...|december)\s+\d{4}/gi at index i
MonthYearEnd(s, i) ==
    LET month == AlternativeAt(s, i, MonthWords)
        w == SpacesEnd(s, i + month)
    IN  IF month = 0 \/ w = i + month \/ DigitsEnd(s, w) < w + 4 THEN 0
        ELSE w + 4

\* /\d{4}/g at index i
YearEnd(s, i) ==
    IF i <= Len(s) /\ DigitsEnd(s, i) >= i + 4 THEN i + 4 ELSE 0

\* fact.match(pattern)[0] for a pattern that ends at ends[i] when it matches
\* at i: the leftmost match, the empty text when match() returns null
FirstMatch(s, ends) ==
    LET starts == { i \in DOMAIN ends : ends[i] # 0 }
        first == CHOOSE i \in starts : \A j \in starts : i <= j
    IN  IF starts = {} THEN <<>> ELSE SubSeq(s, first, ends[first] - 1)

\* const patterns, each with its first match in fact
PatternMatches(fact) ==
    << FirstMatch(fact, [i \in 1..Len(fact) |-> ScaleEnd(fact, i)]),
       FirstMatch(fact, [i \in 1..Len(fact) |-> PercentEnd(fact, i)]),
       FirstMatch(fact, [i \in 1..Len(fact) |-> MonthYearEnd(fact, i)]),
       FirstMatch(fact, [i \in 1..Len(fact) |-> YearEnd(fact, i)]) >>

\* the patterns tried from the last to the first
FirstHit_LastFirst(ms) ==
    LET hits == { k \in 1..Len(ms) : ms[k] # <<>> }
    IN  IF hits = {} THEN 0 ELSE CHOOSE k \in hits : \A j \in hits : k >= j

\* for (const pattern of patterns): the first pattern with a match, 0 for none
FirstHit(ms) ==
    LET hits == { k \in 1..Len(ms) : ms[k] # <<>> }
    IN  IF hits = {} THEN 0 ELSE CHOOSE k \in hits : \A j \in hits : k <= j

\* firstSentence.length <= 100
SentenceLimit == 100

Ellipsis == <<".", ".", ".">>

\* fact.split(/[.!?]/)[0]
FirstSentence(fact) ==
    SubSeq(fact, 1, FirstOf({ j \in 1..Len(fact) : fact[j] \in {".", "!", "?"} },
                            Len(fact) + 1) - 1)

\* AIEngine.extractKeyInfo(fact)
extractKeyInfo(fact) ==
    LET ms == PatternMatches(fact)
        firstSentence == FirstSentence(fact)
    IN  IF FirstHit(ms) # 0 THEN Trim(ms[FirstHit(ms)])
        ELSE IF Len(firstSentence) <= SentenceLimit THEN Trim(firstSentence)
        ELSE Trim(SubSeq(firstSentence, 1, SentenceLimit)) \o Ellipsis

---------------------------------------------------------------------------
(* State machine of one process() call on a new DocuFreshAI *)

NoCall == [name |-> <<>>, params |-> <<>>, full |-> <<>>, args |-> <<>>,
           kind |-> "none", ret |-> <<>>, before |-> <<>>, iter |-> 0,
           lookup |-> NoLookup, order |-> <<>>, allOk |-> TRUE, plain |-> TRUE,
           stuck |-> 0, onlyStuck |-> TRUE]

\* the handler invocations of iteration it so far, the last call being c:
\* for each the index its match starts at and whether the marker is bare
OrderSoFar(c, it) == IF c.iter = it THEN c.order ELSE <<>>

\* the constructor, and the arguments the call will be made with
Init ==
    /\ \E input \in Inputs :
          /\ text = input[1]
          /\ customData = input[2]
    /\ pc = "idle"
    /\ ready = FALSE
    /\ initialized = FALSE
    /\ result = <<>>
    /\ iteration = 0
    /\ matches = <<>>
    /\ simpleMatches = <<>>
    /\ mi = 1
    /\ origin = <<>>
    /\ base = <<>>
    /\ firstIter = <<>>
    /\ lastCall = NoCall
    /\ handlerCalls = 0
    /\ substRuns = 0
    /\ scanEmpty = FALSE
    /\ splitName = <<>>
    /\ splitRaw = <<>>
    /\ splitArgs = <<>>
    /\ WikiIdle
    /\ EngineIdle
    /\ FnIdle
    /\ MarkerIdle

\* the for loop over Object.entries(customData): entries from index k on
RECURSIVE CustomSubstitution(_, _, _)
CustomSubstitution(s, data, k) ==
    IF k > Len(data) THEN s
    ELSE CustomSubstitution(ReplaceAll(s, Placeholder(data[k].key), data[k].value),
                            data, k + 1)

\* the loop test written with <=
LoopGuard_OffByOne(it) == it <= maxIterations

\* while (iteration < maxIterations)
LoopGuard(it) == it < maxIterations

\* if (matches.length === 0 && simpleMatches.length === 0) break
NoMarkers(ms, sms) == Len(ms) = 0 /\ Len(sms) = 0

\* (lastCall also keeps, as history, whether every processMarker call so far
\* was of a known handler that returned a text without braces, and whether
\* every text a handler returned so far was without braces; the last
\* iteration in which processMarker returned the marker text again, for an
\* unknown name or from the catch block, and whether every call so far did)

\* a match with the origin of its first character
WithOrigin(m, o) ==
    [full |-> m.full, name |-> m.name, params |-> m.params, index |-> m.index,
     opos |-> o[m.index]]

\* firstIter after a dispatch of match m in iteration it, the replacement
\* falling on the occurrence that starts at index at of the buffer with
\* origins o (0: no occurrence)
MarkResolved(f, m, o, at, it) ==
    [q \in DOMAIN f |->
        IF f[q] = 0 /\ (q = m.opos \/ (at # 0 /\ q = o[at])) THEN it ELSE f[q]]

SplitUnchanged ==
    UNCHANGED <<splitName, splitRaw, splitArgs>> /\ UNCHANGED <<wikiVars, engineVars, fnVars, markerVars>>

\* await docufresh.init() by the caller, before process(): the model loads or
\* the load fails (init() rejects and the instance stays as constructed)
InitCall ==
    /\ pc = "idle"
    /\ ~ready
    /\ \E loaded \in BOOLEAN :
          /\ initialized' = loaded
          /\ ready' = loaded
    /\ UNCHANGED <<text, customData, pc, result, iteration, matches, simpleMatches, mi,
                   origin, base, firstIter, lastCall, handlerCalls, substRuns, scanEmpty>>
    /\ SplitUnchanged

\* process(text, customData) is called: if (!this.ready) await this.init()
ProcessEnter ==
    /\ pc = "idle"
    /\ pc' = IF ready THEN "subst" ELSE "init"
    /\ UNCHANGED <<text, customData, ready, initialized, result, iteration, matches,
                   simpleMatches, mi, origin, base, firstIter, lastCall, handlerCalls,
                   substRuns, scanEmpty>>
    /\ SplitUnchanged

\* the awaited init() settles: AIEngine.init loads the model, or its catch
\* block rethrows the load error, which process() does not catch
ProcessAwaitInit ==
    /\ pc = "init"
    /\ \E loaded \in BOOLEAN :
          /\ initialized' = loaded
          /\ ready' = loaded
          /\ pc' = IF loaded THEN "subst" ELSE "thrown"
    /\ UNCHANGED <<text, customData, result, iteration, matches, simpleMatches, mi,
                   origin, base, firstIter, lastCall, handlerCalls, substRuns, scanEmpty>>
    /\ SplitUnchanged

\* let result = text; the custom data loop; let iteration = 0
CustomPass ==
    /\ pc = "subst"
    /\ result' = CustomSubstitution(text, customData, 1)
    /\ substRuns' = substRuns + 1
    /\ base' = result'
    /\ origin' = [k \in 1..Len(result') |-> k]
    /\ firstIter' = Zeros(Len(result'))
    /\ iteration' = 0
    /\ pc' = "scan"
    /\ UNCHANGED <<text, customData, ready, initialized, matches, simpleMatches, mi,
                   lastCall, handlerCalls, scanEmpty>>
    /\ SplitUnchanged

\* the loop test, iteration++, the two matchAll scans and the break
Scan ==
    /\ pc = "scan"
    /\ IF LoopGuard(iteration)
       THEN LET ms  == InnerMatches(result)
                sms == SimpleMatches(result)
            IN  /\ iteration' = iteration + 1
                /\ matches' = [k \in DOMAIN ms |-> WithOrigin(ms[k], origin)]
                /\ simpleMatches' = [k \in DOMAIN sms |-> WithOrigin(sms[k], origin)]
                /\ mi' = 1
                /\ scanEmpty' = NoMarkers(ms, sms)
                /\ pc' = IF NoMarkers(ms, sms) THEN "done"
                         ELSE IF Len(ms) > 0 THEN "inner" ELSE "simple"
       ELSE /\ pc' = "done"
            /\ UNCHANGED <<iteration, matches, simpleMatches, mi, scanEmpty>>
    /\ UNCHANGED <<text, customData, ready, initialized, result, origin, base, firstIter,
                   lastCall, handlerCalls, substRuns>>
    /\ SplitUnchanged

\* one turn of a for-of loop: await this.processMarker(name, params) with
\* handler outcome out, then result = result.replace(fullMarker, replacement)
Dispatch(m, out) ==
    LET replacement == ProcessMarkerResult(m.name, m.params, out)
        at == IndexOf(result, m.full)
    IN  /\ result' = ReplaceFirst(result, m.full, replacement)
        /\ origin' = ReplaceFirstOrigin(result, origin, m.full, replacement)
        /\ firstIter' = MarkResolved(firstIter, m, origin, at, iteration)
        /\ handlerCalls' = IF IsKnown(m.name) THEN handlerCalls + 1 ELSE handlerCalls
        /\ lastCall' = [name |-> m.name, params |-> m.params, full |-> m.full,
                        args |-> IF IsKnown(m.name) THEN HandlerArgs(m.name, m.params)
                                 ELSE <<>>,
                        kind |-> IF IsKnown(m.name) THEN out.kind ELSE "unknown",
                        ret |-> replacement, before |-> result, iter |-> iteration,
                        lookup |-> IF IsKnown(m.name) THEN out.lookup ELSE NoLookup,
                        order |-> IF IsKnown(m.name)
                                  THEN Append(OrderSoFar(lastCall, iteration),
                                              [index |-> m.index, bare |-> pc = "simple"])
                                  ELSE OrderSoFar(lastCall, iteration),
                        allOk |-> /\ lastCall.allOk
                                  /\ IsKnown(m.name)
                                  /\ out.kind = "ok"
                                  /\ \A k \in DOMAIN out.value : NotBrace(out.value[k]),
                        plain |-> /\ lastCall.plain
                                  /\ (IsKnown(m.name) /\ out.kind = "ok") =>
                                        \A k \in DOMAIN out.value : NotBrace(out.value[k]),
                        stuck |-> IF ~IsKnown(m.name) \/ out.kind = "throw" THEN iteration
                                  ELSE lastCall.stuck,
                        onlyStuck |-> lastCall.onlyStuck
                                      /\ (~IsKnown(m.name) \/ out.kind = "throw")]

\* the outcomes of the handler call processMarker makes (none for an unknown name)
CallOutcomes(m) ==
    IF IsKnown(m.name) THEN HandlerOutcomes(m.name, HandlerArgs(m.name, m.params))
    ELSE { Thrown }

\* for (const match of matches)
ResolveInner ==
    /\ pc = "inner"
    /\ \E out \in CallOutcomes(matches[mi]) : Dispatch(matches[mi], out)
    /\ mi' = IF mi < Len(matches) THEN mi + 1 ELSE 1
    /\ pc' = IF mi < Len(matches) THEN "inner"
             ELSE IF Len(simpleMatches) > 0 THEN "simple" ELSE "scan"
    /\ UNCHANGED <<text, customData, ready, initialized, iteration, matches,
                   simpleMatches, base, substRuns, scanEmpty>>
    /\ SplitUnchanged

\* for (const match of simpleMatches)
ResolveSimple ==
    /\ pc = "simple"
    /\ \E out \in CallOutcomes(simpleMatches[mi]) : Dispatch(simpleMatches[mi], out)
    /\ mi' = IF mi < Len(simpleMatches) THEN mi + 1 ELSE 1
    /\ pc' = IF mi < Len(simpleMatches) THEN "simple" ELSE "scan"
    /\ UNCHANGED <<text, customData, ready, initialized, iteration, matches,
                   simpleMatches, base, substRuns, scanEmpty>>
    /\ SplitUnchanged

Next ==
    \/ InitCall
    \/ ProcessEnter
    \/ ProcessAwaitInit
    \/ CustomPass
    \/ Scan
    \/ ResolveInner
    \/ ResolveSimple

Spec == Init /\ [][Next]_vars

---------------------------------------------------------------------------
(* processMarker's parameter splitting applied to raw strings on its own *)

InitSplit ==
    /\ text = <<>>
    /\ customData = <<>>
    /\ pc = "split"
    /\ ready = FALSE
    /\ initialized = FALSE
    /\ result = <<>>
    /\ iteration = 0
    /\ matches = <<>>
    /\ simpleMatches = <<>>
    /\ mi = 1
    /\ origin = <<>>
    /\ base = <<>>
    /\ firstIter = <<>>
    /\ lastCall = NoCall
    /\ handlerCalls = 0
    /\ substRuns = 0
    /\ scanEmpty = FALSE
    /\ splitName \in MarkerNames
    /\ splitRaw \in RawStrings
    /\ splitArgs = <<>>
    /\ WikiIdle
    /\ EngineIdle
    /\ FnIdle
    /\ MarkerIdle

\* the try block of processMarker up to the handler call
SplitStep ==
    /\ pc = "split"
    /\ splitArgs' = HandlerArgs(splitName, splitRaw)
    /\ pc' = "split-done"
    /\ UNCHANGED <<text, customData, ready, initialized, result, iteration, matches,
                   simpleMatches, mi, origin, base, firstIter, lastCall, handlerCalls,
                   substRuns, scanEmpty, splitName, splitRaw>>
    /\ UNCHANGED <<wikiVars, engineVars, fnVars, markerVars>>

NextSplit == SplitStep

SplitSpec == InitSplit /\ [][NextSplit]_vars

---------------------------------------------------------------------------
(* The lookup client on its own: concurrent getSummary calls, the clock and *)
(* clearCache()                                                             *)

\* the process() state of a run that makes no process() call
ProcessIdle ==
    /\ text = <<>>
    /\ customData = <<>>
    /\ ready = FALSE
    /\ initialized = FALSE
    /\ result = <<>>
    /\ iteration = 0
    /\ matches = <<>>
    /\ simpleMatches = <<>>
    /\ mi = 1
    /\ origin = <<>>
    /\ base = <<>>
    /\ firstIter = <<>>
    /\ lastCall = NoCall
    /\ handlerCalls = 0
    /\ substRuns = 0
    /\ scanEmpty = FALSE
    /\ splitName = <<>>
    /\ splitRaw = <<>>
    /\ splitArgs = <<>>

ProcessUnchanged ==
    /\ UNCHANGED <<text, customData, pc, ready, initialized, result, iteration, matches,
                   simpleMatches, mi, origin, base, firstIter, lastCall, handlerCalls,
                   substRuns, scanEmpty, splitName, splitRaw, splitArgs>>
    /\ UNCHANGED <<engineVars, fnVars, markerVars>>

\* new WikipediaClient({cacheTTL})
InitWiki ==
    /\ ProcessIdle
    /\ pc = "wiki"
    /\ WikiIdle
    /\ EngineIdle
    /\ FnIdle
    /\ MarkerIdle

\* getSummary(topic) up to its first await: normalizeTopic, getFromCache,
\* `if (cached) return cached`, else the fetch is issued
GetSummaryCall(c, topic) ==
    LET key == normalizeTopic(topic)
        hit == CacheHit(cache, key, now)
        live == key \in DOMAIN stored /\ now - stored[key].timestamp <= cacheTTL
    IN  /\ pc = "wiki"
        /\ wcall[c].pc # "fetching"
        /\ fetches < MaxFetches
        /\ cache' = AfterGetFromCache(cache, key, now)
        /\ fetches' = IF hit THEN fetches ELSE fetches + 1
        /\ wcall' = [wcall EXCEPT ![c] =
              [pc |-> IF hit THEN "returned" ELSE "fetching",
               topic |-> topic, key |-> key,
               served |-> IF hit THEN "cache" ELSE "fetch",
               outcome |-> "none",
               ret |-> IF hit THEN cache[key].data ELSE NoRecord,
               expect |-> IF live THEN "cache" ELSE "fetch",
               expectData |-> IF live THEN stored[key].data ELSE NoRecord,
               afterFailure |-> \E d \in Callers :
                                   /\ wcall[d].pc = "returned"
                                   /\ wcall[d].outcome \in FetchFailures
                                   /\ wcall[d].key = key]]
        /\ UNCHANGED <<now, stored>>
        /\ ProcessUnchanged

\* the awaited fetch and response.json() delivered data: the record is
\* built, cached under the normalized topic and returned
FetchSucceeds(c, url) ==
    LET record == FreshRecord(wcall[c].key, url)
        item == [data |-> record, timestamp |-> now]
    IN  /\ pc = "wiki"
        /\ wcall[c].pc = "fetching"
        /\ cache' = MapSet(cache, wcall[c].key, item)
        /\ stored' = MapSet(stored, wcall[c].key, item)
        /\ wcall' = [wcall EXCEPT ![c].pc = "returned", ![c].outcome = "ok",
                                  ![c].ret = record]
        /\ UNCHANGED <<now, fetches>>
        /\ ProcessUnchanged

\* a catch block that caches the record it returns
FetchFails_Cached(c, failure) ==
    /\ pc = "wiki"
    /\ wcall[c].pc = "fetching"
    /\ wcall' = [wcall EXCEPT ![c].pc = "returned", ![c].outcome = failure,
                              ![c].ret = DegradedRecord(wcall[c].topic)]
    /\ cache' = MapSet(cache, wcall[c].key,
                       [data |-> DegradedRecord(wcall[c].topic), timestamp |-> now])
    /\ UNCHANGED <<now, fetches, stored>>
    /\ ProcessUnchanged

\* the fetch rejected, the response was not ok or the body did not parse:
\* the catch block returns the degraded record and nothing is cached
FetchFails(c, failure) ==
    /\ pc = "wiki"
    /\ wcall[c].pc = "fetching"
    /\ wcall' = [wcall EXCEPT ![c].pc = "returned", ![c].outcome = failure,
                              ![c].ret = DegradedRecord(wcall[c].topic)]
    /\ UNCHANGED <<cache, now, fetches, stored>>
    /\ ProcessUnchanged

\* clearCache()
ClearCache ==
    /\ pc = "wiki"
    /\ cache # EmptyMap
    /\ cache' = EmptyMap
    /\ stored' = EmptyMap
    /\ UNCHANGED <<now, wcall, fetches>>
    /\ ProcessUnchanged

\* time passes
Tick ==
    /\ pc = "wiki"
    /\ now < MaxTime
    /\ now' = now + 1
    /\ UNCHANGED <<cache, wcall, fetches, stored>>
    /\ ProcessUnchanged

NextWiki ==
    \/ \E c \in Callers, topic \in WikiTopics : GetSummaryCall(c, topic)
    \/ \E c \in Callers, url \in SummaryUrls : FetchSucceeds(c, url)
    \/ \E c \in Callers, failure \in FetchFailures : FetchFails(c, failure)
    \/ ClearCache
    \/ Tick

WikiSpec == InitWiki /\ [][NextWiki]_vars

---------------------------------------------------------------------------
(* The generative backend on its own: a new DocuFreshAI, then concurrent    *)
(* init() and setModel() calls and the model loads they start.  A step is   *)
(* what runs between two awaits.                                            *)

EngineFrame ==
    /\ UNCHANGED <<text, customData, pc, result, iteration, matches, simpleMatches, mi,
                   origin, base, firstIter, lastCall, handlerCalls, substRuns, scanEmpty,
                   splitName, splitRaw, splitArgs>>
    /\ UNCHANGED <<wikiVars, fnVars, markerVars>>

\* new DocuFreshAI({model}): the engine is constructed with options.model
InitEngine ==
    /\ ProcessIdle
    /\ pc = "engine"
    /\ WikiIdle
    /\ FnIdle
    /\ MarkerIdle
    /\ \E option \in ModelOptions : EngineConstructed(option)

\* the state a call returns in
Snap(m, g, setter) == [model |-> m, generator |-> g, setter |-> setter]

\* caller c enters AIEngine.init(), the engine's flags being isInitialized
\* and initializing: the part of init() before its first await
EnterInit(c, op, arg, m, isInitialized, setter) ==
    LET path == InitPath(isInitialized, initializing)
    IN  /\ initializing' = (initializing \/ path = "load")
        /\ ecall' = [ecall EXCEPT ![c] =
              [pc |-> IF path = "return" THEN "done"
                      ELSE IF path = "poll" THEN "polling" ELSE "loading",
               op |-> op, arg |-> arg, path |-> path,
               entryInitialized |-> isInitialized,
               loadFor |-> IF path = "load" THEN m ELSE Undefined,
               snap |-> IF path = "return" THEN Snap(m, generator, setter) ELSE NoSnap]]

CanCall(c) == ecall[c].pc \in {"idle", "done", "failed"}

\* engine.init(), as the generation methods and DocuFreshAI.init() call it
EngineInitCall(c) ==
    /\ pc = "engine"
    /\ CanCall(c)
    /\ EnterInit(c, "init", NoModel, model, initialized, lastSetter)
    /\ UNCHANGED <<optModel, model, generator, initialized, ready, loadedOk, lastSetter,
                   dfInitDone>>
    /\ EngineFrame

\* DocuFreshAI.init(): if (this.ready) return; await this.ai.init()
DocuFreshInitCall(c) ==
    /\ pc = "engine"
    /\ CanCall(c)
    /\ IF ready
       THEN /\ ecall' = [ecall EXCEPT ![c] =
                   [pc |-> "done", op |-> "dfInit", arg |-> NoModel, path |-> "ready",
                    entryInitialized |-> initialized, loadFor |-> Undefined,
                    snap |-> Snap(model, generator, lastSetter)]]
            /\ UNCHANGED initializing
       ELSE EnterInit(c, "dfInit", NoModel, model, initialized, lastSetter)
    /\ dfInitDone' = (dfInitDone \/ (~ready /\ initialized))
    /\ ready' = (ready \/ initialized)
    /\ UNCHANGED <<optModel, model, generator, initialized, loadedOk, lastSetter>>
    /\ EngineFrame

\* setModel(modelName): the model is resolved, initialized and generator are
\* reset, and init() is entered
SetModelCall(c, modelName) ==
    /\ pc = "engine"
    /\ CanCall(c)
    /\ model' = resolveModel(modelName)
    /\ initialized' = FALSE
    /\ generator' = NoGenerator
    /\ loadedOk' = FALSE
    /\ lastSetter' = c
    /\ EnterInit(c, "setModel", modelName, model', FALSE, c)
    /\ UNCHANGED <<optModel, ready, dfInitDone>>
    /\ EngineFrame

\* the rest of DocuFreshAI.init() once ai.init() has returned: the markers
\* are created and this.ready = true
AfterInit(c) ==
    /\ ready' = (ready \/ ecall[c].op = "dfInit")
    /\ dfInitDone' = (dfInitDone \/ ecall[c].op = "dfInit")

\* the awaited pipeline() resolves: generator, initialized = true, and
\* initializing = false in the finally block
LoadSucceeds(c) ==
    /\ pc = "engine"
    /\ ecall[c].pc = "loading"
    /\ generator' = ecall[c].loadFor
    /\ initialized' = TRUE
    /\ initializing' = FALSE
    /\ loadedOk' = TRUE
    /\ ecall' = [ecall EXCEPT ![c].pc = "done",
                              ![c].snap = Snap(model, generator', lastSetter)]
    /\ AfterInit(c)
    /\ UNCHANGED <<optModel, model, lastSetter>>
    /\ EngineFrame

\* init() without the finally block: a failed load leaves initializing set
LoadFails_NoFinally(c) ==
    /\ pc = "engine"
    /\ ecall[c].pc = "loading"
    /\ ecall' = [ecall EXCEPT ![c].pc = "failed"]
    /\ UNCHANGED <<optModel, model, generator, initialized, initializing, ready, loadedOk,
                   lastSetter, dfInitDone>>
    /\ EngineFrame

\* the awaited pipeline() rejects: the catch block rethrows, the finally
\* block sets initializing = false
LoadFails(c) ==
    /\ pc = "engine"
    /\ ecall[c].pc = "loading"
    /\ initializing' = FALSE
    /\ ecall' = [ecall EXCEPT ![c].pc = "failed"]
    /\ UNCHANGED <<optModel, model, generator, initialized, ready, loadedOk, lastSetter,
                   dfInitDone>>
    /\ EngineFrame

\* a waiting caller's timer fires with initializing false: the loop ends and
\* init() returns
PollReturns(c) ==
    /\ pc = "engine"
    /\ ecall[c].pc = "polling"
    /\ ~initializing
    /\ ecall' = [ecall EXCEPT ![c].pc = "done",
                              ![c].snap = Snap(model, generator, lastSetter)]
    /\ AfterInit(c)
    /\ UNCHANGED <<optModel, model, generator, initialized, initializing, loadedOk,
                   lastSetter>>
    /\ EngineFrame

NextEngine ==
    \/ \E c \in Callers : EngineInitCall(c)
    \/ \E c \in Callers : DocuFreshInitCall(c)
    \/ \E c \in Callers, modelName \in SetModelArgs : SetModelCall(c, modelName)
    \/ \E c \in Callers : LoadSucceeds(c)
    \/ \E c \in Callers : LoadFails(c)
    \/ \E c \in Callers : PollReturns(c)

EngineSpec == InitEngine /\ [][NextEngine]_vars

---------------------------------------------------------------------------
(* normalizeTopic applied to topic strings on its own *)

\* the state of a run that applies one function
FnFrame ==
    /\ UNCHANGED <<text, customData, ready, initialized, result, iteration, matches,
                   simpleMatches, mi, origin, base, firstIter, lastCall, handlerCalls,
                   substRuns, scanEmpty, splitName, splitRaw, splitArgs>>
    /\ UNCHANGED <<wikiVars, engineVars, markerVars>>

InitNormalize ==
    /\ ProcessIdle
    /\ pc = "normalize"
    /\ WikiIdle
    /\ EngineIdle
    /\ MarkerIdle
    /\ fnIn \in TopicStrings
    /\ fnOut = <<>>

\* client.normalizeTopic(topic)
NormalizeStep ==
    /\ pc = "normalize"
    /\ fnOut' = normalizeTopic(fnIn)
    /\ pc' = "normalize-done"
    /\ UNCHANGED fnIn
    /\ FnFrame

NextNormalize == NormalizeStep

NormalizeSpec == InitNormalize /\ [][NextNormalize]_vars

---------------------------------------------------------------------------
(* extractKeyInfo applied to fact texts on its own *)

\* facts are put together from at most MaxWords of these pieces
MaxWords == 4

FactWords == { <<"8">>, <<".">>, <<",">>, <<" ">>, <<"B","i","l","l","i","o","n">>, <<"p","e","o","p","l","e">>, <<"%">>, <<"M","a","y">>, <<"2","0","2","3">>, <<"x">> }

RECURSIVE Flatten(_)
Flatten(ws) == IF ws = <<>> THEN <<>> ELSE Head(ws) \o Flatten(Tail(ws))

\* `The population reached 8.1 billion people in 2023.`
PopulationFact == <<"T","h","e"," ","p","o","p","u","l","a","t","i","o","n"," ","r","e","a","c","h","e","d"," ","8",".","1"," ","b","i","l","l","i","o","n"," ","p","e","o","p","l","e"," ","i","n"," ","2","0","2","3",".">>

\* `Growth was 8 percent in may 2020`
GrowthFact == <<"G","r","o","w","t","h"," ","w","a","s"," ","8"," ","p","e","r","c","e","n","t"," ","i","n"," ","m","a","y"," ","2","0","2","0">>

\* a first sentence of more than SentenceLimit characters, with spaces around
\* the limit, and a second sentence
LongFact ==
    [i \in 1..(SentenceLimit - 2) |-> "x"] \o <<" ", " ", " ", "y", "!", " ", "z">>

\* a text without terminator, one character longer than SentenceLimit
LongWord == [i \in 1..(SentenceLimit + 1) |-> "x"]

\* a text of exactly SentenceLimit characters
LimitWord == [i \in 1..SentenceLimit |-> "x"]

Facts ==
    { Flatten(ws) : ws \in UNION { [1..k -> FactWords] : k \in 0..MaxWords } }
        \cup {PopulationFact, GrowthFact, LongFact, LongWord, LimitWord}

InitExtract ==
    /\ ProcessIdle
    /\ pc = "extract"
    /\ WikiIdle
    /\ EngineIdle
    /\ MarkerIdle
    /\ fnIn \in Facts
    /\ fnOut = <<>>

\* engine.extractKeyInfo(fact)
ExtractStep ==
    /\ pc = "extract"
    /\ fnOut' = extractKeyInfo(fnIn)
    /\ pc' = "extract-done"
    /\ UNCHANGED fnIn
    /\ FnFrame

NextExtract == ExtractStep

ExtractSpec == InitExtract /\ [][NextExtract]_vars

---------------------------------------------------------------------------
(* One call of a fact-using handler through processMarker's splitting *)

\* the parameter strings the markers are written with
MarkerRaws == { <<"q">>, <<"T",":","q">>, <<"T",":">>, <<"T",":"," ">>, <<":","q">>, <<"T",":","q",":","r">>, <<" ","T"," ",":"," ","q"," ">>,
                <<"T",":","$","&">> }

FactUsers == { ai_fact, ai_rewrite, ai_answer }

\* the handlers that await the lookup client or the engine
AwaitingMarkers == FactUsers \cup SummaryMarkers

MarkerFrame ==
    /\ UNCHANGED <<text, customData, ready, initialized, result, iteration, matches,
                   simpleMatches, mi, origin, base, firstIter, lastCall, handlerCalls,
                   substRuns, scanEmpty, splitName, splitRaw, splitArgs>>
    /\ UNCHANGED <<wikiVars, engineVars, fnVars>>

InitMarker ==
    /\ ProcessIdle
    /\ pc = "marker"
    /\ WikiIdle
    /\ EngineIdle
    /\ FnIdle
    /\ optSearchFallback \in SearchFallbackOptions
    /\ \E markerName \in AwaitingMarkers, raw \in MarkerRaws :
          hcall = [NoHandlerCall EXCEPT !.name = markerName, !.raw = raw,
                                        !.stage = "start"]

\* the handler has its fact text and goes on to the engine
WithFacts(h, facts) ==
    [h EXCEPT !.lookup.text = facts, !.stage = "generate",
              !.request = EngineRequest(h.name, h.args, facts)]

\* await markerFn(...params), up to the handler's first await
HandlerStart ==
    /\ pc = "marker"
    /\ hcall.stage = "start"
    /\ LET args == HandlerArgs(hcall.name, hcall.raw)
       IN  hcall' =
             IF NeedsFacts(hcall.name, args)
             THEN [hcall EXCEPT !.args = args, !.stage = "lookup",
                                !.lookup = [NoLookup EXCEPT
                                              !.fn = FactLookupFn(useSearchFallback),
                                              !.topic = args[1]]]
             ELSE IF hcall.name \in SummaryMarkers
             THEN [hcall EXCEPT !.args = args, !.stage = "summary",
                                !.lookup = [NoLookup EXCEPT !.fn = "getSummary",
                                                            !.topic = args[1]]]
             ELSE [hcall EXCEPT !.args = args, !.stage = "generate",
                                !.request = EngineRequest(hcall.name, args, <<>>)]
    /\ UNCHANGED <<pc, optSearchFallback>>
    /\ MarkerFrame

\* the handler returns value or throws; processMarker returns the
\* replacement and process() puts it in the place of the marker
Finished(h, kind, value) ==
    LET fullMarker == Marker(h.name, h.raw)
        replacement == ProcessMarkerResult(h.name, h.raw,
                                           [kind |-> kind, value |-> value])
    IN  [h EXCEPT !.stage = "done", !.kind = kind, !.value = value,
                  !.out = ReplaceFirst(fullMarker, fullMarker, replacement)]

\* the handler has its summary record: ai_updated returns, the others go on
\* to the engine with the extract
WithSummary(h, title, extract, timestamp, error) ==
    LET got == [h EXCEPT !.lookup.text = extract,
                         !.lookup.direct = IF error THEN "failed" ELSE "ok",
                         !.title = title, !.timestamp = timestamp]
    IN  IF h.name = ai_updated
        THEN Finished(got, "ok", UpdatedText(timestamp, error))
        ELSE [got EXCEPT !.stage = "generate",
                         !.request = EngineRequest(h.name, h.args, extract)]

\* wikipedia.getSummary(topic) of a summary handler, the page being found
SummaryResolves(extract, dataTimestamp) ==
    /\ pc = "marker"
    /\ hcall.stage = "summary"
    /\ hcall' = WithSummary(hcall, normalizeTopic(hcall.lookup.topic), extract,
                            FreshTimestamp(dataTimestamp), FALSE)
    /\ pc' = IF hcall.name = ai_updated THEN "marker-done" ELSE pc
    /\ UNCHANGED optSearchFallback
    /\ MarkerFrame

\* wikipedia.getSummary(topic) of a summary handler giving the degraded record
SummaryDegraded ==
    /\ pc = "marker"
    /\ hcall.stage = "summary"
    /\ hcall' = WithSummary(hcall, DegradedRecord(hcall.lookup.topic).title,
                            DegradedRecord(hcall.lookup.topic).extract,
                            DegradedTimestamp, TRUE)
    /\ pc' = IF hcall.name = ai_updated THEN "marker-done" ELSE pc
    /\ UNCHANGED optSearchFallback
    /\ MarkerFrame

\* wikipedia.getFact(topic), getSummary having found the page
GetFactResolves(extract) ==
    /\ pc = "marker"
    /\ hcall.stage = "lookup"
    /\ hcall.lookup.fn = "getFact"
    /\ hcall' = WithFacts([hcall EXCEPT !.lookup.direct = "ok"],
                          FactOf(extract, hcall.lookup.topic))
    /\ UNCHANGED <<pc, optSearchFallback>>
    /\ MarkerFrame

\* wikipedia.getFact(topic), getSummary giving its degraded record
GetFactDegraded ==
    /\ pc = "marker"
    /\ hcall.stage = "lookup"
    /\ hcall.lookup.fn = "getFact"
    /\ hcall' = WithFacts([hcall EXCEPT !.lookup.direct = "failed"],
                          DegradedFact(hcall.lookup.topic))
    /\ UNCHANGED <<pc, optSearchFallback>>
    /\ MarkerFrame

\* wikipedia.getFactWithFallback(topic), the topic resolving directly
FallbackResolves(extract) ==
    /\ pc = "marker"
    /\ hcall.stage = "lookup"
    /\ hcall.lookup.fn = "getFactWithFallback"
    /\ hcall' = WithFacts([hcall EXCEPT !.lookup.direct = "ok"],
                          FactOf(extract, hcall.lookup.topic))
    /\ UNCHANGED <<pc, optSearchFallback>>
    /\ MarkerFrame

\* wikipedia.getFactWithFallback(topic), the topic not resolving directly
FallbackDirectFails ==
    /\ pc = "marker"
    /\ hcall.stage = "lookup"
    /\ hcall.lookup.fn = "getFactWithFallback"
    /\ hcall' = [hcall EXCEPT !.lookup.direct = "failed", !.stage = "search"]
    /\ UNCHANGED <<pc, optSearchFallback>>
    /\ MarkerFrame

\* the search of getFactWithFallback comes back with these titles
SearchReturns(titles) ==
    /\ pc = "marker"
    /\ hcall.stage = "search"
    /\ hcall' =
         IF titles = <<>>
         THEN WithFacts([hcall EXCEPT !.lookup.searched = TRUE,
                                      !.lookup.candidates = titles],
                        NotFoundFact(hcall.lookup.topic))
         ELSE [hcall EXCEPT !.lookup.searched = TRUE, !.lookup.candidates = titles,
                            !.lookup.retried = titles[1], !.stage = "retry"]
    /\ UNCHANGED <<pc, optSearchFallback>>
    /\ MarkerFrame

\* the second lookup of getFactWithFallback, with the first title found
RetryResolves(extract) ==
    /\ pc = "marker"
    /\ hcall.stage = "retry"
    /\ hcall' = WithFacts(hcall, FactOf(extract, hcall.lookup.retried))
    /\ UNCHANGED <<pc, optSearchFallback>>
    /\ MarkerFrame

RetryFails ==
    /\ pc = "marker"
    /\ hcall.stage = "retry"
    /\ hcall' = WithFacts(hcall, NotFoundFact(hcall.lookup.topic))
    /\ UNCHANGED <<pc, optSearchFallback>>
    /\ MarkerFrame

\* the generator call of the engine method returns: output || fallback
GeneratorReturns(output) ==
    /\ pc = "marker"
    /\ hcall.stage = "generate"
    /\ hcall' = Finished([hcall EXCEPT !.generation =
                                          IF output # <<>> THEN "text" ELSE "empty"],
                         "ok",
                         IF output # <<>> THEN output
                         ELSE MethodFallback(hcall.request, hcall.args))
    /\ pc' = "marker-done"
    /\ UNCHANGED optSearchFallback
    /\ MarkerFrame

\* the generator call throws: the catch block of the engine method
GeneratorThrows ==
    /\ pc = "marker"
    /\ hcall.stage = "generate"
    /\ hcall' = Finished([hcall EXCEPT !.generation = "throws"], "ok",
                         MethodFallback(hcall.request, hcall.args))
    /\ pc' = "marker-done"
    /\ UNCHANGED optSearchFallback
    /\ MarkerFrame

\* await this.init() rejects in the engine method: the handler throws
EngineThrows ==
    /\ pc = "marker"
    /\ hcall.stage = "generate"
    /\ hcall' = Finished([hcall EXCEPT !.generation = "init-rejected"], "throw", <<>>)
    /\ pc' = "marker-done"
    /\ UNCHANGED optSearchFallback
    /\ MarkerFrame

NextMarker ==
    \/ HandlerStart
    \/ \E extract \in Extracts : GetFactResolves(extract)
    \/ GetFactDegraded
    \/ \E extract \in Extracts : FallbackResolves(extract)
    \/ FallbackDirectFails
    \/ \E titles \in SearchResults : SearchReturns(titles)
    \/ \E extract \in Extracts : RetryResolves(extract)
    \/ RetryFails
    \/ \E extract \in Extracts, dataTimestamp \in DataTimestamps :
          SummaryResolves(extract, dataTimestamp)
    \/ SummaryDegraded
    \/ \E output \in GeneratorOutputs : GeneratorReturns(output)
    \/ GeneratorThrows
    \/ EngineThrows

MarkerSpec == InitMarker /\ [][NextMarker]_vars

---------------------------------------------------------------------------
(* Properties *)

\* the index of the `}}` that closes the `{{` pair counted as depth, from i on
\* (0: none)
RECURSIVE BraceScan(_, _, _)
BraceScan(s, i, depth) ==
    LET j == FirstOf({ k \in i..Len(s) : HasAt(s, k, OpenBraces) \/ HasAt(s, k, CloseBraces) },
                     0)
    IN  IF j = 0 THEN 0
        ELSE IF HasAt(s, j, OpenBraces) THEN BraceScan(s, j + 2, depth + 1)
        ELSE IF depth = 1 THEN j ELSE BraceScan(s, j + 2, depth - 1)

CloseOf(s, p) == BraceScan(s, p + 2, 1)

\* a marker `{{ai_<word characters>` followed by `:` or `}}` starts at p
MarkerOpens(s, p) ==
    /\ HasAt(s, p, <<"{", "{", "a", "i", "_">>)
    /\ \E e \in (p + 6)..Len(s) :
          /\ \A k \in (p + 5)..(e - 1) : s[k] \in WordChars
          /\ (s[e] = ":" \/ HasAt(s, e, <<"}", "}">>))

\* the marker at p is well formed (its braces close) and the well-formed
\* marker at i lies inside it
Encloses(s, p, i) ==
    /\ MarkerOpens(s, p) /\ MarkerOpens(s, i)
    /\ p < i
    /\ CloseOf(s, i) # 0
    /\ CloseOf(s, i) < CloseOf(s, p)

\* s contains `{{ai_name}}` or `{{ai_name:params}}`, name of one or more word
\* characters, params without braces
HasMarkerShape(s) ==
    \E p \in 1..Len(s) : \E e \in (p + 6)..Len(s) :
        /\ HasAt(s, p, <<"{", "{", "a", "i", "_">>)
        /\ \A k \in (p + 5)..(e - 1) : s[k] \in WordChars
        /\ \/ HasAt(s, e, <<"}", "}">>)
           \/ /\ s[e] = ":"
              /\ \E c \in (e + 1)..Len(s) :
                    /\ HasAt(s, c, <<"}", "}">>)
                    /\ \A k \in (e + 1)..(c - 1) : s[k] \notin {"{", "}"}

\* how far the call has come: the iteration, the phase within it (the scan
\* of the next iteration counts as the end of this one) and the loop index
Progress ==
    << iteration,
       CASE pc = "inner" -> 1 [] pc = "simple" -> 2 [] pc = "scan" -> 3
         [] pc = "done" -> 4 [] OTHER -> 0,
       mi >>

\* lexicographic order on triples
Before(a, b) ==
    \/ a[1] < b[1]
    \/ a[1] = b[1] /\ a[2] < b[2]
    \/ a[1] = b[1] /\ a[2] = b[2] /\ a[3] < b[3]

\* a step of the call, once past init(), takes it further and does not throw
Advances ==
    pc \in {"subst", "scan", "inner", "simple"}
       => (Before(Progress, Progress') /\ pc' # "thrown")

\* C1: once the instance is ready, process() makes at most 10 scans and
\* returns: it stops at the first scan that finds neither shape and otherwise
\* after the 10th iteration, it does not throw, and as long as it has not
\* returned a step is pending (a scan, or the handler call of the current
\* match) and every step takes the call further in an order bounded by the
\* iteration cap, so that it returns once every handler call has settled
C1_BoundedReturn ==
    /\ [](iteration <= 10)
    /\ [](scanEmpty => pc = "done")
    /\ [](pc = "done" => (scanEmpty \/ iteration = 10))
    /\ [](ready => pc # "thrown")
    /\ [](pc = "inner" => (mi \in 1..Len(matches) /\ CallOutcomes(matches[mi]) # {}))
    /\ [](pc = "simple" => (mi \in 1..Len(simpleMatches)
                              /\ CallOutcomes(simpleMatches[mi]) # {}))
    /\ [][Advances]_vars

\* C1 witness: a handler echoed a marker in every iteration and process()
\* returned after the 10th with the marker still in the buffer
C1_Witness ==
    /\ pc = "done"
    /\ iteration = 10
    /\ ~scanEmpty
    /\ lastCall.kind = "ok"
    /\ HasMarkerShape(result)

\* C2: a marker is dispatched only when its parameter text holds no brace,
\* hence no inner marker, and every well-formed marker inside a dispatched
\* marker was resolved in a strictly earlier iteration than the one in which
\* the enclosing marker was first matched
C2_InnermostFirst ==
    /\ \A k \in 1..Len(lastCall.params) : lastCall.params[k] \notin {"{", "}"}
    /\ \A p \in 1..Len(base) : \A i \in 1..Len(base) :
          (Encloses(base, p, i) /\ firstIter[p] # 0)
             => (firstIter[i] # 0 /\ firstIter[i] < firstIter[p])

\* C2 witness: an enclosing marker was dispatched, after its inner marker
C2_Witness ==
    \E p \in 1..Len(base) : \E i \in 1..Len(base) :
        /\ Encloses(base, p, i)
        /\ firstIter[p] > 1
        /\ firstIter[i] = 1

\* C3: resolving a marker whose name is not in the catalog, written with
\* parameters or bare, returns the marker text as it was written
C3_UnknownPreserved ==
    lastCall.kind = "unknown" => lastCall.ret = lastCall.full

\* C4: when a handler throws, processMarker returns that marker's original
\* text unchanged and process() does not throw
C4_FailureLocal ==
    /\ lastCall.kind = "throw" => lastCall.ret = lastCall.full
    /\ handlerCalls > 0 => pc # "thrown"

\* C5: process() never throws, whatever fails, the model load of the
\* automatic init on first use included
C5_NeverThrows == pc # "thrown"

\* C6: process(`{{ai_complete:p}}`) returns p, trimmed, for every non-empty
\* parameter text p without braces, colons in p included
C6_CompleteIdentity ==
    \A p \in RawParams :
        (/\ pc = "done" /\ customData = <<>>
         /\ Trim(p) # <<>> /\ text = Marker(ai_complete, p))
           => result = Trim(p)

\* the index of the k-th colon of r; 0 for k = 0 and Len(r) + 1 past the last
KthColon(r, k) ==
    LET colons == { i \in 1..Len(r) : r[i] = ":" }
    IN  IF k = 0 THEN 0
        ELSE IF k > Cardinality(colons) THEN Len(r) + 1
        ELSE CHOOSE c \in colons : Cardinality({ j \in colons : j < c }) = k - 1

\* C7: the arguments processMarker passes for a raw parameter string r: none
\* when r is empty; for ai_rewrite, ai_answer and ai_complete the trimmed
\* text before the first colon and the trimmed rest when r has a colon, and
\* trim(r) alone when it has none; for every other marker the trimmed
\* segments between the colons
C7_SplitPolicy ==
    pc = "split-done" =>
        LET r == splitRaw
            n == Cardinality({ i \in 1..Len(r) : r[i] = ":" })
            firstColon == splitName \in { <<"a","i","_","r","e","w","r","i","t","e">>,
                                          <<"a","i","_","a","n","s","w","e","r">>,
                                          <<"a","i","_","c","o","m","p","l","e","t","e">> }
        IN  IF r = <<>> THEN splitArgs = <<>>
            ELSE IF firstColon /\ n > 0
                 THEN /\ Len(splitArgs) = 2
                      /\ splitArgs[1] = Trim(SubSeq(r, 1, KthColon(r, 1) - 1))
                      /\ splitArgs[2] = Trim(SubSeq(r, KthColon(r, 1) + 1, Len(r)))
            ELSE IF firstColon
                 THEN splitArgs = << Trim(r) >>
            ELSE /\ Len(splitArgs) = n + 1
                 /\ \A k \in 1..(n + 1) :
                       splitArgs[k] = Trim(SubSeq(r, KthColon(r, k - 1) + 1, KthColon(r, k) - 1))

\* C7 witness: a first-colon marker was given text with further colons, kept
\* in its second argument
C7_Witness ==
    /\ pc = "split-done"
    /\ splitName = ai_rewrite
    /\ Len(splitArgs) = 2
    /\ \E k \in 1..Len(splitArgs[2]) : splitArgs[2][k] = ":"

\* C8: the two occurrences of one marker text in a document receive the
\* identical replacement text
C8_IdenticalReplacement ==
    \A m \in DupLeaves :
        (pc = "done" /\ customData = <<>> /\ text = m \o <<" ">> \o m)
           => LET n == (Len(result) - 1) \div 2
              IN  /\ Len(result) = 2 * n + 1
                  /\ result[n + 1] = " "
                  /\ SubSeq(result, 1, n) = SubSeq(result, n + 2, 2 * n + 1)

\* C9: a document without a marker shape, processed without custom data, is
\* returned unchanged and no handler is invoked
C9_NoMarkerNoOp ==
    (pc = "done" /\ customData = <<>> /\ ~HasMarkerShape(text))
       => (result = text /\ handlerCalls = 0 /\ lastCall = NoCall)

\* C9 witness: a near miss of the marker patterns came back unchanged
C9_Witness ==
    /\ pc = "done"
    /\ customData = <<>>
    /\ ~HasMarkerShape(text)
    /\ HasAt(text, 1, <<"{", "{", "a", "i", "_">>)
    /\ result = text

\* s with every occurrence of pat replaced by the characters of v as they are
RECURSIVE LiteralReplaceAll(_, _, _)
LiteralReplaceAll(s, pat, v) ==
    IF s = <<>> THEN <<>>
    ELSE IF HasAt(s, 1, pat)
         THEN v \o LiteralReplaceAll(SubSeq(s, Len(pat) + 1, Len(s)), pat, v)
         ELSE <<s[1]>> \o LiteralReplaceAll(Tail(s), pat, v)

RECURSIVE LiteralSubstitution(_, _, _)
LiteralSubstitution(s, data, k) ==
    IF k > Len(data) THEN s
    ELSE LiteralSubstitution(
             LiteralReplaceAll(s, <<"{", "{">> \o data[k].key \o <<"}", "}">>, data[k].value),
             data, k + 1)

\* C10: the custom substitution pass replaces every `{{name}}` by
\* String(value) for every entry, runs exactly once per call, before any
\* handler is invoked, and is not run again
C10_CustomPassOnce ==
    /\ substRuns <= 1
    /\ pc \in {"scan", "inner", "simple", "done"} => substRuns = 1
    /\ substRuns = 0 => handlerCalls = 0
    /\ substRuns = 1 => base = LiteralSubstitution(text, customData, 1)

\* C11: getSummary never throws, and when the fetch fails, the response is
\* not ok or the body does not parse it returns the degraded record: error
\* set, the requested topic as title, no url, and the extract
\* `Unable to fetch information about <topic>`
C11_DegradedRecord ==
    \A c \in Callers :
        /\ wcall[c].pc \in {"idle", "fetching", "returned"}
        /\ (wcall[c].pc = "returned" /\ wcall[c].outcome \in FetchFailures) =>
              /\ wcall[c].ret.error = TRUE
              /\ wcall[c].ret.title = wcall[c].topic
              /\ wcall[c].ret.url = <<>>
              /\ wcall[c].ret.extract = UnableText \o wcall[c].topic

\* a failed lookup of a topic that is not in normal form has returned
C11_Witness ==
    \E c \in Callers :
        /\ wcall[c].pc = "returned"
        /\ wcall[c].outcome = "status"
        /\ wcall[c].topic = <<" ", "T">>

\* C12: a getSummary call made while a record stored for the same normalized
\* topic is at most cacheTTL old, with no clearCache() since, is served that
\* record from the cache without a fetch; a call made after more than
\* cacheTTL, or after clearCache(), issues a fetch
C12_CacheServes ==
    \A c \in Callers :
        wcall[c].pc # "idle" =>
            /\ wcall[c].served = wcall[c].expect
            /\ wcall[c].served = "cache" => wcall[c].ret = wcall[c].expectData

\* a call served from the cache exactly cacheTTL after the record was stored
\* by a call that spelled the topic differently
C12_Witness ==
    \E c \in Callers :
        /\ wcall[c].pc = "returned"
        /\ wcall[c].served = "cache"
        /\ wcall[c].topic = <<" ", "T">>
        /\ wcall[c].key \in DOMAIN stored
        /\ now - stored[wcall[c].key].timestamp = cacheTTL
        /\ \E d \in Callers : wcall[d].topic = <<"T">> /\ wcall[d].outcome = "ok"

\* C13: init() coalesces: at most one model load is in flight at any moment,
\* no load is in flight or starts after a load has succeeded unless setModel
\* was called since, and init() entered on an initialized engine returns
\* without loading
C13_InitCoalesces ==
    /\ Cardinality({ c \in Callers : ecall[c].pc = "loading" }) <= 1
    /\ loadedOk => \A c \in Callers : ecall[c].pc # "loading"
    /\ \A c \in Callers :
          (ecall[c].op \in {"init", "dfInit"} /\ ecall[c].entryInitialized)
             => ecall[c].path \in {"return", "ready"}

\* two concurrent init() calls have both returned, one having loaded the
\* model and the other having waited for that load
C13_Witness ==
    \E c, d \in Callers :
        /\ ecall[c].pc = "done" /\ ecall[c].path = "load"
        /\ ecall[d].pc = "done" /\ ecall[d].path = "poll"
        /\ ecall[d].op \in {"init", "dfInit"}
        /\ loadedOk

\* C14: when setModel(m) returns, with no other setModel call since, the
\* engine's model is the resolved id of m and its generator is one that was
\* loaded for m, whatever init() calls were in flight
C14_SetModelReplaces ==
    \A c \in Callers :
        (ecall[c].pc = "done" /\ ecall[c].op = "setModel" /\ ecall[c].snap.setter = c)
           => /\ ecall[c].snap.model = resolveModel(ecall[c].arg)
              /\ ecall[c].snap.generator = ecall[c].snap.model

\* whitespace
IsWhitespace(c) == c \in {" ", "\t", "\n"}

\* s is in normal form: no whitespace, no underscore at either end
IsNormalForm(s) ==
    /\ \A i \in 1..Len(s) : ~IsWhitespace(s[i])
    /\ s # <<>> => (s[1] # "_" /\ s[Len(s)] # "_")

\* s without whitespace or an underscore at either end
IsTrimmed(s) ==
    s # <<>> => (~IsWhitespace(s[1]) /\ ~IsWhitespace(s[Len(s)])
                    /\ s[1] # "_" /\ s[Len(s)] # "_")

\* the whitespace characters of s, and the places where a run of them starts
WhitespaceAt(s) == { i \in 1..Len(s) : IsWhitespace(s[i]) }
RunStarts(s) == { i \in WhitespaceAt(s) : i = 1 \/ ~IsWhitespace(s[i - 1]) }

IsLetter(c) == ~IsWhitespace(c) /\ c # "_"

\* C15: normalizeTopic gives a normal form: no whitespace, no whitespace or
\* underscore at either end, each whitespace run turned into one underscore
\* and nothing else changed, `  hello world  ` becomes `hello_world`, a
\* string in normal form is returned as it is, and normalizing twice is
\* normalizing once
C15_NormalForm ==
    pc = "normalize-done" =>
        /\ IsNormalForm(fnOut)
        /\ SelectSeq(fnOut, IsLetter) = SelectSeq(fnIn, IsLetter)
        /\ IsTrimmed(fnIn) =>
              /\ Len(fnOut) = Len(fnIn) - Cardinality(WhitespaceAt(fnIn))
                                 + Cardinality(RunStarts(fnIn))
              /\ \A i \in RunStarts(fnIn) :
                    fnOut[i - Cardinality({ j \in WhitespaceAt(fnIn) : j < i })
                            + Cardinality({ j \in RunStarts(fnIn) : j < i })] = "_"
        /\ fnIn = HelloWorldPadded => fnOut = <<"h","e","l","l","o","_","w","o","r","l","d">>
        /\ IsNormalForm(fnIn) => fnOut = fnIn
        /\ normalizeTopic(fnOut) = fnOut

\* a topic with a whitespace run inside it, and an underscore left at its
\* end by the trim, has been normalized
C15_Witness ==
    /\ pc = "normalize-done"
    /\ fnIn = <<"a", "\t", " ", "a", "_", " ">>
    /\ fnOut = <<"a", "_", "a">>

\* the model id a new instance is to have for options.model
ExpectedModel(option) ==
    IF option \in {NoModel, "small"} THEN ModelId("Xenova/flan-t5-small")
    ELSE IF option = "base" THEN ModelId("Xenova/flan-t5-base")
    ELSE IF option = "large" THEN ModelId("Xenova/flan-t5-large")
    ELSE ModelId(option)

\* C16: a new instance has the predefined id for the keys small, base and
\* large, the id of small when no model is given and any other identifier
\* as it was given; getAvailableModels() is exactly the three keys;
\* getModelInfo(k) is the metadata record of a known key and null for any
\* other key (k being the model the instance was given); isReady() is false
\* until an init() call has completed
C16_ModelSelection ==
    /\ (\A c \in Callers : ecall[c].op = "none") =>
          (model = ExpectedModel(optModel) /\ ~ready)
    /\ ready => dfInitDone
    /\ getAvailableModels = {"small", "base", "large"}
    /\ getModelInfo(optModel) =
          IF optModel \in {"small", "base", "large"} THEN Info(optModel) ELSE Null
    /\ optModel = "base" => getModelInfo(optModel).info.id = "Xenova/flan-t5-base"

\* C17: process(`{{ai_link:T}}`), T a topic without colon or brace, returns
\* exactly the url of the summary record when the lookup returned one, and
\* otherwise `https://en.wikipedia.org/wiki/` followed by normalizeTopic(T)
C17_LinkEndToEnd ==
    \A T \in RawParams :
        (/\ pc = "done" /\ customData = <<>>
         /\ Trim(T) # <<>> /\ \A i \in 1..Len(T) : T[i] \notin {":", "{", "}"}
         /\ text = Marker(ai_link, T))
           => result = IF lastCall.lookup.url # <<>> THEN lastCall.lookup.url
                       ELSE WikiPrefix \o normalizeTopic(T)

Written(raw) == [k \in DOMAIN Split(raw) |-> Trim(Split(raw)[k])]

\* the handler call looked the topic up and asked the engine to answer the
\* question from the fact text the lookup gave
Grounded(h, topic, question) ==
    /\ h.lookup.fn # "none"
    /\ h.lookup.topic = topic
    /\ h.request = [fn |-> "answerQuestion", input |-> question,
                    context |-> h.lookup.text]

\* the handler call made no lookup and asked the engine to answer the
\* question on its own
Ungrounded(h, question) ==
    /\ h.lookup = NoLookup
    /\ h.request = [fn |-> "answerSimple", input |-> question, context |-> <<>>]

\* C19 as stated: an ai_answer marker written with two parameters looks the
\* topic up and answers the question from the fact text; written with one
\* parameter it makes no lookup and answers from the backend alone.
C19_ModeByCount ==
    (hcall.name = ai_answer /\ hcall.stage = "done") =>
        LET params == Written(hcall.raw)
        IN  /\ Len(params) = 2 => Grounded(hcall, params[1], params[2])
            /\ Len(params) = 1 => Ungrounded(hcall, params[1])

\* C19, amended: an ai_answer marker written with two parameters of which the
\* second is not empty looks the topic up and answers the question from the
\* fact text; written with one parameter, or with an empty second parameter,
\* it makes no lookup and answers its first parameter from the backend alone.
C19_ModeByQuestion ==
    (hcall.name = ai_answer /\ hcall.stage = "done") =>
        LET params == Written(hcall.raw)
        IN  /\ (Len(params) = 2 /\ params[2] # <<>>)
                  => Grounded(hcall, params[1], params[2])
            /\ (Len(params) = 1 \/ (Len(params) = 2 /\ params[2] = <<>>))
                  => Ungrounded(hcall, params[1])

\* both modes happen: a topic with a question after a lookup, and a topic
\* with an empty question without one
C19_Witness ==
    /\ hcall.name = ai_answer
    /\ hcall.stage = "done"
    /\ hcall.kind = "ok"
    /\ \/ /\ hcall.raw = <<" ","T"," ",":"," ","q"," ">>
          /\ hcall.request.fn = "answerQuestion"
          /\ hcall.lookup.topic = <<"T">>
          /\ hcall.lookup.text = <<"E">>
       \/ /\ hcall.raw = <<"T",":"," ">>
          /\ hcall.request.fn = "answerSimple"

C21_LeftToRight ==
    \A i, j \in DOMAIN lastCall.order :
        i < j => lastCall.order[i].index < lastCall.order[j].index

\* C21, amended: in one iteration the handlers of the parameterized markers
\* are invoked first, left to right, and then those of the bare markers,
\* left to right.
C21_LeftToRightPerShape ==
    \A i, j \in DOMAIN lastCall.order :
        i < j =>
            /\ ~(lastCall.order[i].bare /\ ~lastCall.order[j].bare)
            /\ lastCall.order[i].bare = lastCall.order[j].bare
                  => lastCall.order[i].index < lastCall.order[j].index

\* `{{ai_link}} {{ai_link:T}}`: the handler of the parameterized marker, which
\* starts at index 13, was invoked before that of the bare one at index 1
C21_Witness ==
    /\ pc = "scan"
    /\ Len(lastCall.order) = 2
    /\ lastCall.order[1] = [index |-> 13, bare |-> FALSE]
    /\ lastCall.order[2] = [index |-> 1, bare |-> TRUE]

\* the indices at which lit occurs in s
Occurrences(s, lit) == { k \in 1..Len(s) : HasAt(s, k, lit) }

\* s with the n characters from index k on replaced by the text t
Splice(s, k, n, t) == SubSeq(s, 1, k - 1) \o t \o SubSeq(s, k + n, Len(s))

\* C22: a dispatch changes the buffer only inside the span of a marker: after
\* it the buffer is the buffer before it with one occurrence of the matched
\* marker replaced by exactly the text processMarker returned, everything
\* before and after that occurrence being unchanged and in its order.
C22_SubstitutionFrame ==
    lastCall.kind # "none" =>
        \E k \in Occurrences(lastCall.before, lastCall.full) :
            result = Splice(lastCall.before, k, Len(lastCall.full), lastCall.ret)

\* t is the part of s before its first `.` (all of s when it has none)
IsTextBeforeFirstDot(t, s) ==
    /\ Len(t) <= Len(s)
    /\ t = SubSeq(s, 1, Len(t))
    /\ \A k \in DOMAIN t : t[k] # "."
    /\ Len(t) < Len(s) => s[Len(t) + 1] = "."

\* t is the first n characters of s (all of s when it is shorter)
IsFirstChars(t, n, s) ==
    /\ Len(t) = (IF Len(s) < n THEN Len(s) ELSE n)
    /\ t = SubSeq(s, 1, Len(t))

\* C23: when the generator call throws or gives no text, the engine method
\* does not throw and the handler returns the method's fallback: the text
\* before the first `.` (ai_fact, ai_describe), the sentence (ai_rewrite),
\* the first 200 characters of the facts (ai_paragraph), the first 100
\* characters of the text (ai_summary), `Unable to answer` (ai_answer); and
\* the marker is replaced by that fallback in the document.
C23_GenerationFallback ==
    (hcall.stage = "done" /\ hcall.generation \in {"throws", "empty"}) =>
        /\ hcall.kind = "ok"
        /\ hcall.name \in {ai_fact, ai_describe}
              => IsTextBeforeFirstDot(hcall.value, hcall.request.context)
        /\ (hcall.name = ai_rewrite /\ Len(hcall.args) >= 2)
              => hcall.value = hcall.request.input
        /\ hcall.name = ai_paragraph
              => IsFirstChars(hcall.value, 200, hcall.request.context)
        /\ hcall.name = ai_summary
              => IsFirstChars(hcall.value, 100, hcall.request.context)
        /\ hcall.name = ai_answer
              => hcall.value = <<"U","n","a","b","l","e"," ","t","o"," ",
                                 "a","n","s","w","e","r">>
        /\ hcall.out = hcall.value

\* C24: an ai_updated marker is replaced by the date of the summary record's
\* timestamp when the lookup of the topic succeeded, and by `Unknown` when
\* it failed.
C24_UpdatedOrUnknown ==
    (hcall.name = ai_updated /\ hcall.stage = "done") =>
        /\ hcall.lookup.direct = "ok"
              => /\ hcall.value = LocaleDate(hcall.timestamp)
                 /\ hcall.out = hcall.value
        /\ hcall.lookup.direct = "failed"
              => hcall.out = <<"U","n","k","n","o","w","n">>

\* the number of colons of r
Colons(r) == Cardinality({ i \in 1..Len(r) : r[i] = ":" })

\* t is s without the whitespace at its two ends
IsStripped(t, s) ==
    /\ t = <<>> \/ (~IsWhitespace(t[1]) /\ ~IsWhitespace(t[Len(t)]))
    /\ \E i \in 1..(Len(s) + 1) :
          /\ i + Len(t) - 1 <= Len(s)
          /\ t = SubSeq(s, i, i + Len(t) - 1)
          /\ \A k \in 1..Len(s) : (k < i \/ k >= i + Len(t)) => IsWhitespace(s[k])

\* C25 as stated: the parameter list has 0, 1 or 2 elements, and the two
\* parameters of the first-colon strategy rejoined with a colon are the raw
\* parameter text exactly.
C25_ExactRejoin ==
    pc = "split-done" =>
        /\ Len(splitArgs) \in {0, 1, 2}
        /\ (splitName \in FirstColonMarkers /\ Len(splitArgs) = 2)
              => splitArgs[1] \o <<":">> \o splitArgs[2] = splitRaw

\* C25, amended: the list is empty for the empty string; under the
\* first-colon strategy it has one element for a string without a colon and
\* two for a string with one, each being the text on its side of the first
\* colon without the whitespace at its ends, so that rejoining them with a
\* colon gives back the raw text except for that whitespace; under the other
\* strategy it has one element per colon-separated piece, which can be more
\* than two.
C25_RejoinUpToWhitespace ==
    pc = "split-done" =>
        LET r == splitRaw
            c == KthColon(r, 1)
        IN  IF r = <<>> THEN splitArgs = <<>>
            ELSE IF splitName \in FirstColonMarkers
                 THEN IF Colons(r) = 0
                      THEN Len(splitArgs) = 1 /\ IsStripped(splitArgs[1], r)
                      ELSE /\ Len(splitArgs) = 2
                           /\ IsStripped(splitArgs[1], SubSeq(r, 1, c - 1))
                           /\ IsStripped(splitArgs[2], SubSeq(r, c + 1, Len(r)))
            ELSE Len(splitArgs) = Colons(r) + 1

\* a question with a space before the colon: rejoined, the space is gone;
\* and a lookup marker written with two colons gets three parameters
C25_Witness ==
    /\ pc = "split-done"
    /\ \/ /\ splitName = ai_answer
          /\ splitRaw = <<"a", " ", ":", "a">>
          /\ splitArgs = << <<"a">>, <<"a">> >>
       \/ /\ splitName = ai_fact
          /\ splitRaw = <<"a", ":", "a", ":">>
          /\ Len(splitArgs) = 3

\* the markers of s, by the index they start at
MarkersOf(s) == { p \in 1..Len(s) : MarkerOpens(s, p) }

\* s is made of text and well-formed markers only: every brace belongs to
\* the `{{` of a marker that closes or to the `}}` that closes one
WellFormed(s) ==
    /\ \A p \in MarkersOf(s) : CloseOf(s, p) # 0
    /\ \A k \in 1..Len(s) :
          /\ s[k] = "{" => (k \in MarkersOf(s) \/ (k - 1) \in MarkersOf(s))
          /\ s[k] = "}" => \E p \in MarkersOf(s) : k \in {CloseOf(s, p), CloseOf(s, p) + 1}

\* the nesting level of the marker at p: 1 for an innermost marker
Level(s, p) ==
    LET inside == { i \in MarkersOf(s) : Encloses(s, p, i) }
        below(i) == Cardinality({ j \in inside : Encloses(s, j, i) }) + 1
    IN  IF inside = {} THEN 1
        ELSE 1 + (CHOOSE n \in { below(i) : i \in inside } :
                     \A i \in inside : below(i) <= n)

\* C26: for a well-formed document, nested to any depth, whose handlers all
\* are known and return texts without braces, process() returns a document
\* without a marker, and the markers of nesting level k were dispatched in
\* iteration k.
C26_ArbitraryNesting ==
    (pc = "done" /\ customData = <<>> /\ WellFormed(base) /\ lastCall.allOk) =>
        /\ ~HasMarkerShape(result)
        /\ \A p \in MarkersOf(base) : firstIter[p] = Level(base, p)

\* name is `ai_` followed by at least one word character
IsAiName(name) ==
    /\ Len(name) >= 4
    /\ SubSeq(name, 1, 3) = <<"a", "i", "_">>
    /\ \A k \in 4..Len(name) : name[k] \in WordChars

\* the marker of the input that opens at index p of base is still in the
\* buffer, opening at index k, and its parameter text there holds a brace:
\* an inner marker that was not resolved, or a single brace
StillEncloses(p, k) ==
    /\ MarkerOpens(base, p) /\ CloseOf(base, p) # 0
    /\ origin[k] = p
    /\ MarkerOpens(result, k) /\ CloseOf(result, k) # 0
    /\ \E j \in (k + 2)..(CloseOf(result, k) - 1) : ~NotBrace(result[j])

\* the marker text that opens at index p of s, up to the braces that close it
MarkerText(s, p) == SubSeq(s, p, CloseOf(s, p) + 1)

\* C27: every processMarker call receives a name `ai_` + word characters and
\* a parameter text without `{` or `}` (so do the handler's arguments), and
\* when process() returns and no handler returned a text with braces, a
\* marker of the input that still encloses an unresolved marker or a single
\* brace was never dispatched and stands in the output as it was written.
C27_BraceFreeDispatch ==
    /\ lastCall.kind # "none" =>
          /\ IsAiName(lastCall.name)
          /\ \A k \in DOMAIN lastCall.params : NotBrace(lastCall.params[k])
          /\ \A a \in DOMAIN lastCall.args :
                \A k \in DOMAIN lastCall.args[a] : NotBrace(lastCall.args[a][k])
    /\ (pc = "done" /\ customData = <<>> /\ lastCall.plain) =>
          \A p \in DOMAIN base : \A k \in DOMAIN result :
              StillEncloses(p, k) =>
                  /\ firstIter[p] = 0
                  /\ MarkerText(result, k) = MarkerText(base, p)

\* the matches of known handlers in the first scan of s
KnownMatches(s) ==
    Cardinality({ k \in DOMAIN InnerMatches(s) : IsKnown(InnerMatches(s)[k].name) })
    + Cardinality({ k \in DOMAIN SimpleMatches(s) : IsKnown(SimpleMatches(s)[k].name) })

C29_OnlySuccessCached ==
    /\ \A key \in DOMAIN cache :
          /\ key = normalizeTopic(key)
          /\ \E url \in SummaryUrls : cache[key].data = FreshRecord(key, url)
          /\ cache[key].data.error = FALSE
          /\ cache[key] = stored[key]
    /\ \A c \in Callers :
          /\ wcall[c].served = "cache" => wcall[c].ret.error = FALSE
          /\ (wcall[c].pc = "returned" /\ wcall[c].outcome \in FetchFailures) =>
                (wcall[c].key \notin DOMAIN cache \/ cache[wcall[c].key].data.error = FALSE)
          /\ (wcall[c].afterFailure /\ wcall[c].expect = "fetch") => wcall[c].served = "fetch"

\* C29 witness: a topic's fetch failed, nothing was stored for it, and the
\* next call for the same normalized topic is fetching again
C29_Witness ==
    \E c \in Callers : \E d \in Callers :
        /\ wcall[d].pc = "returned"
        /\ wcall[d].outcome \in FetchFailures
        /\ wcall[c].afterFailure
        /\ wcall[c].key = wcall[d].key
        /\ wcall[c].topic # wcall[d].topic
        /\ wcall[c].pc = "fetching"
        /\ wcall[c].key \notin DOMAIN cache
        /\ cache # EmptyMap

\* caller c's init() rejects in this step
InitRejects(c) == ecall[c].pc = "loading" /\ ecall'[c].pc = "failed"

\* caller c, who was waiting for the load in flight, leaves init() in this step
WaiterLeaves(c) == ecall[c].pc = "polling" /\ ecall'[c].pc # "polling"

\* caller c enters engine.init() in this step
InitEntered(c) ==
    /\ CanCall(c)
    /\ ecall'[c].pc \in {"loading", "polling"}
    /\ ecall'[c].op \in {"init", "dfInit"}

\* C30: init() rejects only for the caller that started the load; a failed
\* load changes nothing for the callers waiting on it and leaves the engine
\* as it was, with initializing reset; a waiting caller always returns
\* without an error, on an engine that is not initialized (isReady() false,
\* generator null) when no load has succeeded; and init() entered while the
\* engine is not initialized and no load is in flight starts a new load.
C30_FailedLoadOnlyLoader ==
    /\ [](\A c \in Callers : ecall[c].pc = "failed" => ecall[c].path = "load")
    /\ [](initializing <=> \E c \in Callers : ecall[c].pc = "loading")
    /\ [](initialized <=> generator # NoGenerator)
    /\ [][\A c \in Callers :
            /\ InitRejects(c) =>
                  /\ ~initializing'
                  /\ UNCHANGED <<initialized, generator, model>>
                  /\ \A d \in Callers \ {c} : ecall'[d] = ecall[d]
            /\ WaiterLeaves(c) =>
                  /\ ecall'[c].pc = "done"
                  /\ ~initialized => ecall'[c].snap.generator = NoGenerator
            /\ (InitEntered(c) /\ ~initialized /\ ~initializing) =>
                  (ecall'[c].pc = "loading" /\ initializing')]_vars

\* C30 witness: of two overlapping init() calls the one that started the
\* load was rejected and the one that waited has returned, the engine is not
\* initialized, has no generator, and no load is in flight
C30_Witness ==
    \E c \in Callers : \E d \in Callers :
        /\ ecall[c].pc = "failed" /\ ecall[c].path = "load" /\ ecall[c].op = "init"
        /\ ecall[d].pc = "done" /\ ecall[d].path = "poll" /\ ecall[d].op = "init"
        /\ ecall[d].snap.generator = NoGenerator
        /\ ~initialized
        /\ generator = NoGenerator
        /\ ~initializing
        /\ lastSetter = 0

=============================================================================
